---------------------------- MODULE Spec2Model ----------------------------
(***************************************************************************)
(* Model of the mini-framework virtual-tree reconciler                     *)
(* (src/src/core/virtual-dom.js), its event dispatch layer                 *)
(* (src/src/core/event-system.js) and the framework's mount entry point    *)
(* (src/src/core/framework.js).                                            *)
(*                                                                         *)
(* The host tree is a sequence of node records; a node's identity is its   *)
(* index in that sequence.  Every operation of the reconciler is a         *)
(* function from a world record W (host tree, handler tables, lifecycle    *)
(* table, mount registry, exception flag, instrumentation) to a world      *)
(* record, so that one render call is one atomic step of the state         *)
(* machine, exactly as one synchronous JavaScript call is.                 *)
(***************************************************************************)
EXTENDS Integers, Sequences, FiniteSets

(***************************************************************************)
(* Bounds of the model.                                                    *)
(***************************************************************************)
MaxOps == 3

(***************************************************************************)
(* JavaScript values.  Every value is a record of the same shape so that   *)
(* the number 1 and the string "1" are different, comparable values.       *)
(***************************************************************************)
Null == [ty |-> "null", v |-> ""]
Undefined == [ty |-> "undefined", v |-> ""]
NaN == [ty |-> "nan", v |-> ""]
Num(s) == [ty |-> "num", v |-> s]
Str(s) == [ty |-> "str", v |-> s]
Fn(s) == [ty |-> "fn", v |-> s]
Bool(s) == [ty |-> "bool", v |-> s]
\* An object literal, named by its identity.
Obj(s) == [ty |-> "object", v |-> s]

\* JavaScript truthiness of a value (used by `props.key || null`, `if (dataId)`).
Truthy(x) ==
    /\ x.ty \notin {"null", "undefined", "nan"}
    /\ ~(x.ty = "num" /\ x.v = "0")
    /\ ~(x.ty = "str" /\ x.v = "")
    /\ ~(x.ty = "bool" /\ x.v = "false")

\* String(value): what setAttribute stores.
JSString(x) ==
    CASE x.ty = "null" -> Str("null")
      [] x.ty = "undefined" -> Str("undefined")
      [] x.ty = "nan" -> Str("NaN")
      [] OTHER -> Str(x.v)

\* parseFloat over the strings of the model: a decimal string parses to its
\* number, every other string to NaN.
Digits == {"0", "1", "2", "3"}
parseFloat(s) == IF s.v \in Digits THEN Num(s.v) ELSE NaN

(***************************************************************************)
(* JavaScript Map, as a function whose domain is the set of present keys.  *)
(***************************************************************************)
EmptyMap == [x \in {} |-> Null]
MapHas(m, k) == k \in DOMAIN m
MapSet(m, k, val) == [x \in (DOMAIN m) \cup {k} |-> IF x = k THEN val ELSE m[x]]
MapDelete(m, k) == [x \in (DOMAIN m) \ {k} |-> m[x]]

(***************************************************************************)
(* Sequence helpers (Array.prototype.indexOf / splice / includes).         *)
(***************************************************************************)
IndexOf(s, x) ==
    IF \E i \in 1..Len(s) : s[i] = x
    THEN CHOOSE i \in 1..Len(s) : s[i] = x /\ \A j \in 1..(i - 1) : s[j] # x
    ELSE 0
RemoveAt(s, i) == SubSeq(s, 1, i - 1) \o SubSeq(s, i + 1, Len(s))
InsertAt(s, i, x) == SubSeq(s, 1, i - 1) \o <<x>> \o SubSeq(s, i, Len(s))
Includes(s, x) == \E i \in 1..Len(s) : s[i] = x

(***************************************************************************)
(* Host tree.  A node is a record; node n is dom[n].  parent = 0 is a      *)
(* detached node (or the document-level parent of a mount point), and 0    *)
(* also stands for null / undefined node references.                       *)
(***************************************************************************)
M1 == 1
M2 == 2
Mounts == {M1, M2}

ElementNode(tag) ==
    [kind |-> "elem", tag |-> tag, text |-> "", kids |-> <<>>, parent |-> 0,
     attrs |-> EmptyMap, className |-> "", live |-> EmptyMap, desc |-> EmptyMap,
     style |-> EmptyMap]
TextNode(value) ==
    [kind |-> "text", tag |-> "", text |-> value, kids |-> <<>>, parent |-> 0,
     attrs |-> EmptyMap, className |-> "", live |-> EmptyMap, desc |-> EmptyMap,
     style |-> EmptyMap]

\* Instrumentation: the attributes of the description last applied to a node.
noteDescription(W, element, props) ==
    IF W.exc THEN W ELSE [W EXCEPT !.dom[element].desc = props]

\* parent.childNodes[index] with a 0-based index; 0 when there is none.
childAt(W, parent, index) ==
    IF index + 1 <= Len(W.dom[parent].kids) THEN W.dom[parent].kids[index + 1] ELSE 0

\* The host tree with node n taken out of its parent's child list.
Detached(dom, n) ==
    LET p == dom[n].parent IN
    IF p = 0 THEN dom
    ELSE [dom EXCEPT ![p].kids = RemoveAt(@, IndexOf(@, n)), ![n].parent = 0]

\* An exception propagating out of the running call.
Raise(W) == [W EXCEPT !.exc = TRUE]

\* document.createElement / document.createTextNode: the new node is the
\* last one of W.dom.
createNode(W, node) == [W EXCEPT !.dom = Append(@, node), !.muts = @ + 1]
NewId(W) == Len(W.dom)

\* parent.appendChild(node)
appendChild(W, parent, node) ==
    IF W.exc THEN W
    ELSE IF W.dom[parent].kind # "elem" THEN Raise(W)
    ELSE LET d == Detached(W.dom, node) IN
         [W EXCEPT !.dom = [d EXCEPT ![parent].kids = Append(@, node),
                                     ![node].parent = parent],
                   !.muts = @ + 1]

\* parent.insertBefore(node, ref); ref = 0 is null (append).
insertBefore(W, parent, node, ref) ==
    IF W.exc THEN W
    ELSE IF ref = 0 THEN appendChild(W, parent, node)
    ELSE IF W.dom[parent].kind # "elem" \/ W.dom[ref].parent # parent THEN Raise(W)
    ELSE LET d == Detached(W.dom, node) IN
         [W EXCEPT !.dom = [d EXCEPT ![parent].kids = InsertAt(@, IndexOf(@, ref), node),
                                     ![node].parent = parent],
                   !.muts = @ + 1]

\* parent.removeChild(node)
removeChild(W, parent, node) ==
    IF W.exc THEN W
    ELSE IF W.dom[node].parent # parent THEN Raise(W)
    ELSE [W EXCEPT !.dom = Detached(@, node), !.muts = @ + 1]

\* parent.replaceChild(newChild, oldChild)
replaceChild(W, parent, newChild, oldChild) ==
    IF W.exc THEN W
    ELSE IF W.dom[oldChild].parent # parent THEN Raise(W)
    ELSE LET d == Detached(W.dom, newChild)
             i == IndexOf(d[parent].kids, oldChild) IN
         [W EXCEPT !.dom = [d EXCEPT ![parent].kids = [@ EXCEPT ![i] = newChild],
                                     ![newChild].parent = parent,
                                     ![oldChild].parent = 0],
                   !.muts = @ + 1]

\* An emptying that reaches the children of every mount point.
clearEveryMount(W, container) ==
    IF W.exc THEN W
    ELSE [W EXCEPT !.dom = [n \in 1..Len(@) |->
                              IF n \in Mounts THEN [@[n] EXCEPT !.kids = <<>>]
                              ELSE IF @[n].parent \in Mounts THEN [@[n] EXCEPT !.parent = 0]
                              ELSE @[n]],
                   !.muts = @ + 1]

\* container.innerHTML = '': every child is detached, nothing else is done.
clearChildren(W, container) ==
    IF W.exc THEN W
    ELSE [W EXCEPT !.dom = [n \in 1..Len(@) |->
                              IF n = container THEN [@[n] EXCEPT !.kids = <<>>]
                              ELSE IF @[n].parent = container THEN [@[n] EXCEPT !.parent = 0]
                              ELSE @[n]],
                   !.muts = @ + 1]

\* element.setAttribute(name, value); a text node has no such method.
setAttribute(W, el, name, value) ==
    IF W.exc THEN W
    ELSE IF W.dom[el].kind # "elem" THEN Raise(W)
    ELSE [W EXCEPT !.dom[el].attrs = MapSet(@, name, JSString(value)), !.muts = @ + 1]

\* element.removeAttribute(name)
removeAttribute(W, el, name) ==
    IF W.exc THEN W
    ELSE IF W.dom[el].kind # "elem" THEN Raise(W)
    ELSE [W EXCEPT !.dom[el].attrs = MapDelete(@, name), !.muts = @ + 1]

\* element.getAttribute(name): the string, or Null.
getAttribute(W, el, name) ==
    IF MapHas(W.dom[el].attrs, name) THEN W.dom[el].attrs[name] ELSE Null

\* element.className = value
setClassName(W, el, value) ==
    IF W.exc THEN W
    ELSE [W EXCEPT !.dom[el].className = JSString(value).v, !.muts = @ + 1]

\* The style objects and style strings of the model and their declarations.
\* red and redAgain are two objects with the same content.
StyleEntries(value) ==
    CASE value = Obj("red") -> MapSet(EmptyMap, "color", "red")
      [] value = Obj("redAgain") -> MapSet(EmptyMap, "color", "red")
      [] value = Obj("blue") -> MapSet(EmptyMap, "color", "blue")
      [] value = Obj("bold") -> MapSet(EmptyMap, "fontWeight", "bold")
      [] value = Obj("redBold") -> MapSet(MapSet(EmptyMap, "color", "red"), "fontWeight", "bold")
      [] value = Str("color: red") -> MapSet(EmptyMap, "color", "red")
      [] OTHER -> EmptyMap

\* Object.assign(element.style, value): every entry of value is written over
\* the declarations the element has; null and an empty object write nothing.
assignStyle(W, el, value) ==
    IF W.exc THEN W
    ELSE [W EXCEPT !.dom[el].style =
                       [k \in DOMAIN @ \cup DOMAIN StyleEntries(value) |->
                           IF MapHas(StyleEntries(value), k) THEN StyleEntries(value)[k]
                           ELSE @[k]],
                   !.muts = @ + 1]

\* element.style.cssText = text: the declarations are replaced by those of text.
setCssText(W, el, text) ==
    IF W.exc THEN W
    ELSE [W EXCEPT !.dom[el].style = StyleEntries(text), !.muts = @ + 1]

\* element[name] = value
setLive(W, el, name, value) ==
    IF W.exc THEN W
    ELSE [W EXCEPT !.dom[el].live = MapSet(@, name, value), !.muts = @ + 1]

\* node.textContent = value: a text node takes the string; an element has
\* its children replaced by one new text node (none for the empty string).
setTextContent(W, n, value) ==
    IF W.exc THEN W
    ELSE IF W.dom[n].kind = "text" THEN [W EXCEPT !.dom[n].text = value, !.muts = @ + 1]
    ELSE LET W1 == clearChildren(W, n) IN
         IF value = "" THEN W1
         ELSE appendChild(createNode(W1, TextNode(value)), n, Len(W1.dom) + 1)

(***************************************************************************)
(* Event dispatch layer: registration tables (event-system.js).            *)
(***************************************************************************)
\* const eventTypes = [...] of setupGlobalDelegation.
EventTypes ==
    <<"click", "dblclick", "change", "input", "keydown", "keyup", "submit", "focus", "blur",
      "mousedown", "mouseup", "mouseover", "mouseout", "mouseenter", "mouseleave">>

\* The listeners setupGlobalDelegation installs on the document: one per
\* event type, capturing for mouseenter and mouseleave only.
setupGlobalDelegation ==
    [i \in 1..Len(EventTypes) |->
        [node |-> 0, type |-> EventTypes[i],
         capture |-> EventTypes[i] \in {"mouseenter", "mouseleave"}]]

\* Event types the host does not propagate upward from their target.
Bubbles(eventType) == eventType \notin {"focus", "blur", "mouseenter", "mouseleave"}

\* The listeners of the document that the host calls for an event of this
\* type at a node below it: capturing ones, and the others if it bubbles.
DocumentListeners(ls, eventType) ==
    SelectSeq(ls, LAMBDA l : l.node = 0 /\ l.type = eventType
                             /\ (l.capture \/ Bubbles(eventType)))

\* off(element, eventType, handler) deleting the whole event type, as
\* off(element, eventType) does.
offEventType(evh, element, eventType, handler) ==
    IF ~MapHas(evh, element) THEN evh
    ELSE [evh EXCEPT ![element] = MapDelete(@, eventType)]

\* EventSystem.off(element, eventType, handler) with both given.
offHandler(evh, element, eventType, handler) ==
    IF ~MapHas(evh, element) THEN evh
    ELSE IF ~MapHas(evh[element], eventType) THEN evh
    ELSE LET handlers == evh[element][eventType]
             index == IndexOf(handlers, handler)
             rest == IF index > 0 THEN RemoveAt(handlers, index) ELSE handlers
         IN IF Len(rest) = 0
            THEN [evh EXCEPT ![element] = MapDelete(@, eventType)]
            ELSE [evh EXCEPT ![element] = MapSet(@, eventType, rest)]

\* EventSystem.off(element): remove all handlers for this element.
offElement(evh, element) == MapDelete(evh, element)

\* EventSystem.on(element, eventType, handler)
onHandler(evh, element, eventType, handler) ==
    LET e1 == IF MapHas(evh, element) THEN evh ELSE MapSet(evh, element, EmptyMap)
        e2 == IF MapHas(e1[element], eventType) THEN e1
              ELSE [e1 EXCEPT ![element] = MapSet(@, eventType, <<>>)]
        handlers == e2[element][eventType]
    IN IF Includes(handlers, handler) THEN e2
       ELSE [e2 EXCEPT ![element] = MapSet(@, eventType, Append(handlers, handler))]

(***************************************************************************)
(* Tree descriptions (VNode and text leaves).  All descriptions have one   *)
(* record shape; `ref` is the identity of the JavaScript object, so two     *)
(* descriptions are the same object exactly when they are equal records.   *)
(***************************************************************************)
NoProps == EmptyMap

\* new VNode(tag, props, children): key = props.key || null
VNode(ref, tag, props, children) ==
    [type |-> "elem", tag |-> tag, props |-> props, children |-> children,
     key |-> IF MapHas(props, "key") /\ Truthy(props["key"]) THEN props["key"] ELSE Null,
     ref |-> ref, value |-> ""]

\* { type: 'text', value }: a plain object, its key is undefined.
Text(value) ==
    [type |-> "text", tag |-> "", props |-> NoProps, children |-> <<>>,
     key |-> Undefined, ref |-> 0, value |-> value]

\* An absent description (undefined array slot).
NoVNode ==
    [type |-> "none", tag |-> "", props |-> NoProps, children |-> <<>>,
     key |-> Undefined, ref |-> 0, value |-> ""]

\* child.key != null
HasKey(child) == child.key.ty \notin {"null", "undefined"}

(***************************************************************************)
(* The builder: createElement(tag, props, ...children).  A child argument  *)
(* is a JavaScript value, an array of child arguments, or a description.   *)
(***************************************************************************)
Arr(items) == [ty |-> "array", items |-> items]

\* Array.isArray(child)
IsArray(child) == "ty" \in DOMAIN child /\ child.ty = "array"

\* child != null && child !== false && child !== undefined
IsRendered(child) ==
    IF "ty" \in DOMAIN child
    THEN child.ty \notin {"null", "undefined"} /\ child # Bool("false")
    ELSE TRUE

\* typeof child === 'string' || typeof child === 'number'
IsStringOrNumber(child) == "ty" \in DOMAIN child /\ child.ty \in {"str", "num", "nan"}

\* A flattening that spreads the arrays among the arguments but not the
\* arrays nested inside them.
RECURSIVE flattenOneLevel(_)
flattenOneLevel(children) ==
    IF children = <<>> THEN <<>>
    ELSE (IF IsArray(Head(children)) THEN SelectSeq(Head(children).items, IsRendered)
          ELSE IF IsRendered(Head(children)) THEN <<Head(children)>>
          ELSE <<>>)
         \o flattenOneLevel(Tail(children))

RECURSIVE flattenChildren(_)
flattenChildren(children) ==
    IF children = <<>> THEN <<>>
    ELSE (IF IsArray(Head(children)) THEN flattenChildren(Head(children).items)
          ELSE IF IsRendered(Head(children)) THEN <<Head(children)>>
          ELSE <<>>)
         \o flattenChildren(Tail(children))

\* The callback of .map in createElement (32-35).
processChild(child) ==
    IF IsStringOrNumber(child) THEN Text(JSString(child).v) ELSE child

\* The arguments of one call: argc is arguments.length, tag a string, props
\* the second argument (an attribute object, Undefined when omitted or
\* passed as undefined, or Null), children the rest.
Call(ref, argc, tag, props, children) ==
    [ref |-> ref, argc |-> argc, tag |-> tag, props |-> props, children |-> children]

\* What a call of the builder does: the value it returns, or an exception.
Returned(value) == [threw |-> FALSE, value |-> value]
Thrown == [threw |-> TRUE, value |-> NoVNode]

\* `props = {}` applies to an undefined argument only; props.key of null throws.
createElement(call) ==
    IF call.argc = 1 THEN Returned(Text(call.tag))
    ELSE IF call.props = Null THEN Thrown
    ELSE Returned(VNode(call.ref, call.tag,
                        IF call.props = Undefined THEN NoProps ELSE call.props,
                        [i \in 1..Len(flattenChildren(call.children)) |->
                            processChild(flattenChildren(call.children)[i])]))

(***************************************************************************)
(* Attribute names of the model, in the order Object.entries yields them,  *)
(* and their classification by the string tests of setProps/updateProps.   *)
(***************************************************************************)
PropOrder ==
    <<"key", "className", "style", "data-id", "autofocus", "htmlFor", "title",
      "checked", "value", "selected",
      "onClick", "onKeypress", "onFocus", "onMount", "onUnmount">>
StartsWithOn(key) == key \in {"onClick", "onKeypress", "onFocus", "onMount", "onUnmount"}
\* key.slice(2).toLowerCase()
EventTypeOf(key) ==
    CASE key = "onClick" -> "click"
      [] key = "onKeypress" -> "keypress"
      [] key = "onFocus" -> "focus"
      [] key = "onMount" -> "mount"
      [] key = "onUnmount" -> "unmount"
      [] OTHER -> ""
StartsWithDataOrAria(key) == key \in {"data-id"}
IsFunction(x) == x.ty = "fn"
\* typeof x === 'object'
IsObject(x) == x.ty \in {"object", "null"}
\* props[key], undefined when the key is absent
Prop(props, key) == IF MapHas(props, key) THEN props[key] ELSE Undefined

(***************************************************************************)
(* Behaviour of the callbacks the descriptions of the model carry.         *)
(***************************************************************************)
HookThrows(fn) == fn.v = "uThrow"
HookRenders(fn) == fn.v = "uRender"

(***************************************************************************)
(* The world record threaded through one call:                             *)
(*   dom     host tree                                                     *)
(*   evh     EventSystem.eventHandlers    element -> eventType -> handlers *)
(*   eeh     VirtualDOM.elementEventHandlers  element -> tracked entries   *)
(*   hooks   VirtualDOM.lifecycleHooks    element -> {onMount, onUnmount}  *)
(*   reg     VirtualDOM.containerTrees    container -> description         *)
(*   listeners  the listeners installed with addEventListener              *)
(*   exc     an exception is propagating                                   *)
(*   busy    the re-entrancy guard of the re-rendering unmount hook        *)
(* and the instrumentation of the running call: muts (host-tree writes),   *)
(* evops (on/off calls), calls (unmount hook invocations), cleaned         *)
(* (cleanupElement invocations), trace (registry reads and writes), paths  *)
(* (the reconciliation chosen for each sibling group), writes (assignments *)
(* to fields of descriptions), steps (the order of cleanup), pending (the  *)
(* jobs queued with Promise.resolve().then) and ran (the jobs invoked).    *)
(***************************************************************************)
Tracked(eventType, handler) == [eventType |-> eventType, handler |-> handler]

\* A VirtualDOM constructed without an EventSystem.
NoEventSystem == FALSE

\* this.eventSystem: the framework passes its EventSystem (framework.js 17).
HasEventSystem == TRUE

\* A listener installed with addEventListener; node 0 is the document.
Listener(node, eventType, capture) == [node |-> node, type |-> eventType, capture |-> capture]

\* element.addEventListener(eventType, value), the fallback of setProps and
\* updateProps when there is no EventSystem.
addEventListener(W, element, eventType) ==
    [W EXCEPT !.listeners = Append(@, Listener(element, eventType, FALSE)), !.evops = @ + 1]

\* element.removeEventListener(eventType, value)
removeEventListener(W, element, eventType) ==
    [W EXCEPT !.listeners =
                  IF IndexOf(@, Listener(element, eventType, FALSE)) = 0 THEN @
                  ELSE RemoveAt(@, IndexOf(@, Listener(element, eventType, FALSE))),
              !.evops = @ + 1]

\* this.eventSystem.on(element, eventType, value) and the tracking entry
\* pushed on elementEventHandlers (setProps 141-149, updateProps 442-448).
registerHandler(W, element, eventType, value) ==
    IF W.exc THEN W
    ELSE IF ~HasEventSystem THEN addEventListener(W, element, eventType)
    ELSE [W EXCEPT !.evh = onHandler(@, element, eventType, value),
                   !.eeh = MapSet(@, element,
                                  Append(IF MapHas(@, element) THEN @[element] ELSE <<>>,
                                         Tracked(eventType, value))),
                   !.evops = @ + 1]

\* handlers.find(...) ; handlerEntry.unsubscribe() ; handlers.splice(index, 1)
\* (updateProps 392-399 and 420-427).
unregisterHandler(W, element, eventType, handler) ==
    IF W.exc THEN W
    ELSE IF ~HasEventSystem THEN removeEventListener(W, element, eventType)
    ELSE IF ~MapHas(W.eeh, element) THEN W
    ELSE LET handlers == W.eeh[element]
             index == IndexOf(handlers, Tracked(eventType, handler))
         IN IF index = 0 THEN W
            ELSE [W EXCEPT !.evh = offHandler(@, element, eventType, handler),
                           !.eeh = MapSet(@, element, RemoveAt(handlers, index)),
                           !.evops = @ + 1]

\* Names the host element exposes as properties (`key in element`).
HostProperties == {"id", "title", "style"}

\* element[key] = value for a name the element exposes: id and title reflect
\* into the attribute of the same name, style takes the string as its cssText.
setHostProperty(W, element, key, value) ==
    IF key = "style" THEN setCssText(W, element, JSString(value))
    ELSE setAttribute(W, element, key, value)

\* The autofocus branch of setProps (156-162).
setAutofocus(W, element, value) ==
    IF Truthy(value) THEN setAttribute(W, element, "autofocus", Str("")) ELSE W

\* The autofocus branch of updateProps (455-461).
updateAutofocus(W, element, value) ==
    IF Truthy(value) THEN setAttribute(W, element, "autofocus", Str(""))
    ELSE removeAttribute(W, element, "autofocus")

\* The rule without its special case for checked, value and selected.
applyGenericByType(W, element, key, value) ==
    IF value.ty = "bool"
    THEN IF value.v = "true" THEN setAttribute(W, element, key, Str(""))
         ELSE removeAttribute(W, element, key)
    ELSE IF key \in HostProperties THEN setHostProperty(W, element, key, value)
    ELSE setAttribute(W, element, key, value)

\* The property-vs-attribute rule (setProps 168-185, updateProps 469-486).
applyGeneric(W, element, key, value) ==
    IF key \in {"checked", "value", "selected"} THEN setLive(W, element, key, value)
    ELSE IF value.ty = "bool"
         THEN IF value.v = "true" THEN setAttribute(W, element, key, Str(""))
              ELSE removeAttribute(W, element, key)
    ELSE IF key \in HostProperties THEN setHostProperty(W, element, key, value)
    ELSE setAttribute(W, element, key, value)

\* One iteration of the forEach of setProps.
setProp(W, element, key, value) ==
    IF W.exc THEN W
    ELSE IF key = "className" THEN setClassName(W, element, value)
    ELSE IF key = "style" /\ IsObject(value) THEN assignStyle(W, element, value)
    ELSE IF StartsWithOn(key) /\ IsFunction(value)
         THEN registerHandler(W, element, EventTypeOf(key), value)
    ELSE IF StartsWithDataOrAria(key) THEN setAttribute(W, element, key, value)
    ELSE IF key = "autofocus" THEN setAutofocus(W, element, value)
    ELSE IF key = "htmlFor" THEN setAttribute(W, element, "for", value)
    ELSE IF key \in {"onMount", "onUnmount"} THEN W
    ELSE IF key \notin {"key", "children"} THEN applyGeneric(W, element, key, value)
    ELSE W

RECURSIVE setPropsFrom(_, _, _, _)
setPropsFrom(W, element, props, i) ==
    IF i > Len(PropOrder) THEN W
    ELSE LET key == PropOrder[i] IN
         setPropsFrom(IF MapHas(props, key) THEN setProp(W, element, key, props[key]) ELSE W,
                      element, props, i + 1)

\* setProps(element, props)
setProps(W, element, props) == setPropsFrom(W, element, props, 1)

\* One iteration of the first forEach of updateProps ("Remove old props").
removeOldProp(W, element, key, newProps, oldProps) ==
    IF W.exc \/ MapHas(newProps, key) THEN W
    ELSE IF key = "className" THEN setClassName(W, element, Str(""))
    ELSE IF key = "style" THEN setCssText(W, element, Str(""))
    ELSE IF StartsWithOn(key) /\ IsFunction(oldProps[key])
         THEN unregisterHandler(W, element, EventTypeOf(key), oldProps[key])
    ELSE IF key \notin {"key", "onMount", "onUnmount"} THEN removeAttribute(W, element, key)
    ELSE W

\* hooks = lifecycleHooks.get(element) || {}; hooks[key] = newValue; set(...)
updateHook(W, element, key, newValue) ==
    LET hooks == IF MapHas(W.hooks, element) THEN W.hooks[element]
                 ELSE [onMount |-> Undefined, onUnmount |-> Undefined]
    IN [W EXCEPT !.hooks = MapSet(@, element,
                                  IF key = "onMount" THEN [hooks EXCEPT !.onMount = newValue]
                                  ELSE [hooks EXCEPT !.onUnmount = newValue])]

\* One iteration of the second forEach of updateProps ("Update changed props").
updateChangedProp(W, element, key, newValue, oldValue) ==
    IF W.exc \/ oldValue = newValue THEN W
    ELSE LET W1 == IF StartsWithOn(key) /\ IsFunction(oldValue)
                   THEN unregisterHandler(W, element, EventTypeOf(key), oldValue)
                   ELSE W
         IN IF key = "className" THEN setClassName(W1, element, newValue)
            ELSE IF key = "style" /\ IsObject(newValue)
                 THEN assignStyle(W1, element, newValue)
            ELSE IF StartsWithOn(key) /\ IsFunction(newValue)
                 THEN registerHandler(W1, element, EventTypeOf(key), newValue)
            ELSE IF StartsWithDataOrAria(key) THEN setAttribute(W1, element, key, newValue)
            ELSE IF key = "autofocus" THEN updateAutofocus(W1, element, newValue)
            ELSE IF key = "htmlFor" THEN setAttribute(W1, element, "for", newValue)
            ELSE IF key \in {"onMount", "onUnmount"} THEN updateHook(W1, element, key, newValue)
            ELSE IF key \notin {"key", "children"} THEN applyGeneric(W1, element, key, newValue)
            ELSE W1

RECURSIVE removeOldFrom(_, _, _, _, _)
removeOldFrom(W, element, newProps, oldProps, i) ==
    IF i > Len(PropOrder) THEN W
    ELSE LET key == PropOrder[i] IN
         removeOldFrom(IF MapHas(oldProps, key)
                       THEN removeOldProp(W, element, key, newProps, oldProps) ELSE W,
                       element, newProps, oldProps, i + 1)

RECURSIVE updateChangedFrom(_, _, _, _, _)
updateChangedFrom(W, element, newProps, oldProps, i) ==
    IF i > Len(PropOrder) THEN W
    ELSE LET key == PropOrder[i] IN
         updateChangedFrom(IF MapHas(newProps, key)
                           THEN updateChangedProp(W, element, key, newProps[key],
                                                  Prop(oldProps, key))
                           ELSE W,
                           element, newProps, oldProps, i + 1)

\* updateProps(element, newProps, oldProps)
updateProps(W, element, newProps, oldProps) ==
    noteDescription(updateChangedFrom(removeOldFrom(W, element, newProps, oldProps, 1),
                                      element, newProps, oldProps, 1),
                    element, newProps)

(***************************************************************************)
(* The reconciler.  The operators below are mutually recursive exactly     *)
(* where the methods of VirtualDOM are.                                    *)
(***************************************************************************)
\* vnode.element = element (78): an assignment to a field of the description
\* object.  The constructor had set the field to null (12); nothing reads it.
assignElement(W, vnode, element) ==
    [W EXCEPT !.writes = Append(@, [ref |-> vnode.ref, field |-> "element",
                                    value |-> element])]

RECURSIVE createDOMElement(_, _)
RECURSIVE createChildrenFrom(_, _, _, _)
RECURSIVE cleanupElement(_, _)
RECURSIVE cleanupChildrenFrom(_, _, _)
RECURSIVE callUnmountHook(_, _, _)
RECURSIVE reconcileChildren(_, _, _, _)
RECURSIVE reconcileChildrenWithKeys(_, _, _, _)
RECURSIVE processNewChildrenFrom(_, _, _, _, _, _)
RECURSIVE removeOldChildrenFrom(_, _, _, _, _, _)
RECURSIVE reorderFrom(_, _, _, _)
RECURSIVE reconcileChildrenByIndex(_, _, _, _)
RECURSIVE updateByIndexFrom(_, _, _, _, _)
RECURSIVE updateElement(_, _, _, _, _)
RECURSIVE render(_, _, _)

\* The description the re-rendering unmount hook renders into M1.
NestedDescription == VNode(90, "p", NoProps, <<Text("nested")>>)

\* The result of createDOMElement: the world and the created node.
Created(W, el) == [w |-> W, el |-> el]

\* The registration that calls onMount(element) on the spot.
registerLifecycleSync(W, element, props) ==
    IF MapHas(props, "onMount") /\ IsFunction(props["onMount"])
    THEN [W EXCEPT !.hooks = MapSet(@, element,
                                    [onMount |-> props["onMount"],
                                     onUnmount |-> Prop(props, "onUnmount")]),
                   !.ran = Append(@, [fn |-> props["onMount"], el |-> element])]
    ELSE W

\* if (vnode.props.onMount && typeof vnode.props.onMount === 'function')
\*     this.lifecycleHooks.set(element, { onMount, onUnmount })
\*     Promise.resolve().then(() => vnode.props.onMount(element))
registerLifecycle(W, element, props) ==
    IF MapHas(props, "onMount") /\ IsFunction(props["onMount"])
    THEN [W EXCEPT !.hooks = MapSet(@, element,
                                    [onMount |-> props["onMount"],
                                     onUnmount |-> Prop(props, "onUnmount")]),
                   !.pending = Append(@, [fn |-> props["onMount"], el |-> element])]
    ELSE W

\* element.appendChild(childElement) for a node just created
appendCreated(c, parent) == appendChild(c.w, parent, c.el)

createDOMElement(W, vnode) ==
    IF W.exc THEN Created(W, 0)
    ELSE IF vnode.type = "text"
    THEN Created(createNode(W, TextNode(vnode.value)), Len(W.dom) + 1)
    ELSE Created(createChildrenFrom(
                     registerLifecycle(
                         noteDescription(
                             setProps(assignElement(createNode(W, ElementNode(vnode.tag)),
                                                    vnode, Len(W.dom) + 1),
                                      Len(W.dom) + 1, vnode.props),
                             Len(W.dom) + 1, vnode.props),
                         Len(W.dom) + 1, vnode.props),
                     Len(W.dom) + 1, vnode.children, 1),
                 Len(W.dom) + 1)

\* vnode.children.forEach(child => element.appendChild(createDOMElement(child)))
createChildrenFrom(W, element, children, i) ==
    IF i > Len(children) THEN W
    ELSE createChildrenFrom(appendCreated(createDOMElement(W, children[i]), element),
                            element, children, i + 1)

\* The call of the hook is recorded before the callback runs.
noteCall(W, fn, element) ==
    [W EXCEPT !.calls = Append(@, [hook |-> fn, el |-> element]),
              !.steps = Append(@, [ev |-> "hook", el |-> element])]

\* The re-rendering callback sets its busy flag around its call of render.
enterCallback(W) == [W EXCEPT !.busy = TRUE]
leaveCallback(W) == [W EXCEPT !.busy = FALSE]

\* hooks.onUnmount(element): the callback returns, throws, or (guarded by
\* its own busy flag) renders NestedDescription into M1.
callUnmountHook(W, fn, element) ==
    IF HookThrows(fn) THEN Raise(noteCall(W, fn, element))
    ELSE IF HookRenders(fn) /\ ~W.busy
         THEN leaveCallback(render(enterCallback(noteCall(W, fn, element)),
                                   NestedDescription, M1))
    ELSE noteCall(W, fn, element)

\* const hooks = lifecycleHooks.get(element); if (hooks && hooks.onUnmount && ...)
runUnmountHook(W, element) ==
    IF MapHas(W.hooks, element) /\ IsFunction(W.hooks[element].onUnmount)
    THEN callUnmountHook(W, W.hooks[element].onUnmount, element)
    ELSE W

\* lifecycleHooks.delete ; eventSystem.off(element) ; elementEventHandlers.delete
forgetElement(W, element) ==
    IF W.exc THEN W
    ELSE [W EXCEPT !.hooks = MapDelete(@, element),
                   !.evh = IF HasEventSystem THEN offElement(@, element) ELSE @,
                   !.eeh = MapDelete(@, element),
                   !.evops = @ + 1,
                   !.steps = Append(@, [ev |-> "forget", el |-> element])]

\* Instrumentation: cleanupElement was entered for this element.
noteCleaned(W, element) ==
    [W EXCEPT !.cleaned = Append(@, element),
              !.steps = Append(@, [ev |-> "enter", el |-> element])]

\* "Recursively cleanup children": the child list is read after the hook ran.
cleanupChildrenOf(W, element) ==
    IF W.exc THEN W ELSE cleanupChildrenFrom(W, W.dom[element].kids, 1)

\* The cleanup that visits the children before the element itself.
cleanupChildrenFirst(W, element) ==
    IF W.exc \/ element = 0 THEN W
    ELSE forgetElement(
             runUnmountHook(cleanupChildrenOf(noteCleaned(W, element), element), element),
             element)

cleanupElement(W, element) ==
    IF W.exc \/ element = 0 THEN W
    ELSE cleanupChildrenOf(
             forgetElement(runUnmountHook(noteCleaned(W, element), element), element),
             element)

\* Array.from(element.childNodes).forEach(child => nodeType === 1 && cleanup)
cleanupChildrenFrom(W, childNodes, i) ==
    IF W.exc \/ i > Len(childNodes) THEN W
    ELSE cleanupChildrenFrom(IF W.dom[childNodes[i]].kind = "elem"
                             THEN cleanupElement(W, childNodes[i]) ELSE W,
                             childNodes, i + 1)

\* hasNodeChanged(node1, node2); both are objects, so only the type, tag
\* and key comparisons can differ.
hasNodeChanged(node1, node2) ==
    \/ node1.type # node2.type
    \/ node1.tag # node2.tag
    \/ node1.key # node2.key

\* The test for keys that looks at the new children only.
hasKeysInNew(newChildren, oldChildren) ==
    \E i \in 1..Len(newChildren) : HasKey(newChildren[i])

\* Which reconciliation a sibling group was given.
notePath(W, keyed, newChildren, oldChildren) ==
    [W EXCEPT !.paths = Append(@, [keyed |-> keyed, new |-> newChildren,
                                   old |-> oldChildren])]

\* newChildren.some(child => child && child.key != null) || oldChildren.some(...)
hasKeys(newChildren, oldChildren) ==
    \/ \E i \in 1..Len(newChildren) : HasKey(newChildren[i])
    \/ \E i \in 1..Len(oldChildren) : HasKey(oldChildren[i])

reconcileChildren(W, parent, newChildren, oldChildren) ==
    IF W.exc THEN W
    ELSE IF hasKeys(newChildren, oldChildren)
         THEN reconcileChildrenWithKeys(notePath(W, TRUE, newChildren, oldChildren),
                                        parent, newChildren, oldChildren)
         ELSE reconcileChildrenByIndex(notePath(W, FALSE, newChildren, oldChildren),
                                       parent, newChildren, oldChildren)

\* newChildren[i] of a 0-based index, undefined past the end
ChildOrNone(children, i) == IF i + 1 <= Len(children) THEN children[i + 1] ELSE NoVNode

Max(a, b) == IF a >= b THEN a ELSE b

reconcileChildrenByIndex(W, parent, newChildren, oldChildren) ==
    updateByIndexFrom(W, parent, newChildren, oldChildren, 0)

updateByIndexFrom(W, parent, newChildren, oldChildren, i) ==
    IF W.exc \/ i >= Max(Len(newChildren), Len(oldChildren)) THEN W
    ELSE updateByIndexFrom(updateElement(W, parent, ChildOrNone(newChildren, i),
                                         ChildOrNone(oldChildren, i), i),
                           parent, newChildren, oldChildren, i + 1)

\* "Node was removed" (315-322)
removeNode(W, parent, node) ==
    IF node # 0 THEN removeChild(cleanupElement(W, node), parent, node) ELSE W

\* "Node was added" (325-333), given the created element
insertCreated(c, parent, index) ==
    IF childAt(c.w, parent, index) # 0
    THEN insertBefore(c.w, parent, c.el, childAt(c.w, parent, index))
    ELSE appendChild(c.w, parent, c.el)

\* parent.replaceChild(this.createDOMElement(newNode), oldElement)
replaceCreated(c, parent, oldElement) == replaceChild(c.w, parent, c.el, oldElement)

\* "Node was replaced" (336-348)
replaceNode(W, parent, newNode, oldElement) ==
    IF oldElement # 0
    THEN replaceCreated(createDOMElement(cleanupElement(W, oldElement), newNode),
                        parent, oldElement)
    ELSE appendCreated(createDOMElement(W, newNode), parent)

\* A text update that swaps in a new text node instead of writing the string.
updateTextByReplacing(W, node, newNode, oldNode) ==
    IF newNode.value # oldNode.value /\ node # 0
    THEN replaceCreated(createDOMElement(W, newNode), W.dom[node].parent, node)
    ELSE W

\* "Text nodes" (351-356)
updateText(W, node, newNode, oldNode) ==
    IF newNode.value # oldNode.value /\ node # 0
    THEN setTextContent(W, node, newNode.value)
    ELSE W

\* "Update props" and "Update children using reconciliation" (359-365)
patchElement(W, element, newNode, oldNode) ==
    IF element # 0
    THEN reconcileChildren(updateProps(W, element, newNode.props, oldNode.props),
                           element, newNode.children, oldNode.children)
    ELSE W

updateElement(W, parent, newNode, oldNode, index) ==
    IF W.exc THEN W
    ELSE IF newNode.type = "none" THEN removeNode(W, parent, childAt(W, parent, index))
    ELSE IF oldNode.type = "none"
         THEN insertCreated(createDOMElement(W, newNode), parent, index)
    ELSE IF hasNodeChanged(newNode, oldNode)
         THEN replaceNode(W, parent, newNode, childAt(W, parent, index))
    ELSE IF newNode.type = "text"
         THEN updateText(W, childAt(W, parent, index), newNode, oldNode)
    ELSE patchElement(W, childAt(W, parent, index), newNode, oldNode)

\* domElements = Array.from(parent.childNodes).filter(node => node.nodeType === 1)
domElementsOf(W, parent) ==
    SelectSeq(W.dom[parent].kids, LAMBDA n : W.dom[n].kind = "elem")

\* The index of the last child carrying key k (a later Map.set overwrites).
LastWithKey(children, k) ==
    CHOOSE i \in 1..Len(children) :
        /\ children[i].key = k
        /\ \A j \in (i + 1)..Len(children) : children[j].key # k

\* oldKeyMap: key -> old description, for the old children with a key.
oldKeyMapOf(oldChildren) ==
    [k \in {oldChildren[i].key : i \in {j \in 1..Len(oldChildren) : HasKey(oldChildren[j])}}
        |-> oldChildren[LastWithKey(oldChildren, k)]]

\* The key a live element maps to through its data-id attribute, or NaN.
dataIdKey(W, domElement) ==
    IF Truthy(getAttribute(W, domElement, "data-id"))
    THEN parseFloat(getAttribute(W, domElement, "data-id"))
    ELSE NaN

\* Strategy 1: key -> live element whose data-id parses to that key.
domMapByDataId(W, domElements, oldKeyMap) ==
    [k \in {dataIdKey(W, domElements[i]) : i \in 1..Len(domElements)} \cap DOMAIN oldKeyMap
        |-> domElements[CHOOSE i \in 1..Len(domElements) :
                            /\ dataIdKey(W, domElements[i]) = k
                            /\ \A j \in (i + 1)..Len(domElements) :
                                   dataIdKey(W, domElements[j]) # k]]

\* Strategy 2: key -> live element at the position of the old description.
domMapByOrder(domElements, oldChildren) ==
    [k \in {oldChildren[i].key : i \in {j \in 1..Len(oldChildren) : HasKey(oldChildren[j])}}
        |-> domElements[LastWithKey(oldChildren, k)]]

\* if (oldDomMap.size === 0 && oldChildren.length === domElements.length)
chooseDomMap(byId, domElements, oldChildren) ==
    IF DOMAIN byId = {} /\ Len(oldChildren) = Len(domElements)
    THEN domMapByOrder(domElements, oldChildren)
    ELSE byId

\* oldDomMap as built by lines 226-246.
oldDomMapOf(W, parent, oldChildren) ==
    chooseDomMap(domMapByDataId(W, domElementsOf(W, parent), oldKeyMapOf(oldChildren)),
                 domElementsOf(W, parent), oldChildren)

\* The accumulator of the newChildren.forEach loop: world and processedNodes.
Processed(W, nodes) == [w |-> W, nodes |-> nodes]

\* if (oldChild !== newChild) { updateProps(...); reconcileChildren(...) }
updateMatchedChild(W, oldDomNode, newChild, oldChild) ==
    IF oldChild # newChild
    THEN reconcileChildren(updateProps(W, oldDomNode, newChild.props, oldChild.props),
                           oldDomNode, newChild.children, oldChild.children)
    ELSE W

\* processedNodes.push(element) for a node just created
pushCreated(c, nodes) == Processed(c.w, Append(nodes, c.el))

\* One iteration of "Process new children - create or update nodes" (252-274)
processNewChild(acc, newChild, oldKeyMap, oldDomMap) ==
    IF MapHas(oldKeyMap, newChild.key) /\ MapHas(oldDomMap, newChild.key)
    THEN Processed(updateMatchedChild(acc.w, oldDomMap[newChild.key], newChild,
                                      oldKeyMap[newChild.key]),
                   Append(acc.nodes, oldDomMap[newChild.key]))
    ELSE pushCreated(createDOMElement(acc.w, newChild), acc.nodes)

processNewChildrenFrom(acc, parent, newChildren, oldKeyMap, oldDomMap, i) ==
    IF acc.w.exc \/ i > Len(newChildren) THEN acc
    ELSE processNewChildrenFrom(processNewChild(acc, newChildren[i], oldKeyMap, oldDomMap),
                                parent, newChildren, oldKeyMap, oldDomMap, i + 1)

\* The test of the removal loop (278-280)
isGone(W, parent, oldChild, newKeySet, oldDomMap) ==
    /\ HasKey(oldChild)
    /\ oldChild.key \notin newKeySet
    /\ MapHas(oldDomMap, oldChild.key)
    /\ W.dom[oldDomMap[oldChild.key]].parent = parent

\* "Remove old children that are no longer present" (276-285)
removeOldChildrenFrom(W, parent, oldChildren, newKeySet, oldDomMap, i) ==
    IF W.exc \/ i > Len(oldChildren) THEN W
    ELSE removeOldChildrenFrom(
             IF isGone(W, parent, oldChildren[i], newKeySet, oldDomMap)
             THEN removeChild(cleanupElement(W, oldDomMap[oldChildren[i].key]),
                              parent, oldDomMap[oldChildren[i].key])
             ELSE W,
             parent, oldChildren, newKeySet, oldDomMap, i + 1)

\* "Reorder/insert nodes to match new order" (287-299)
reorderFrom(W, parent, processedNodes, index) ==
    IF W.exc \/ index >= Len(processedNodes) THEN W
    ELSE reorderFrom(IF childAt(W, parent, index) # processedNodes[index + 1]
                     THEN insertBefore(W, parent, processedNodes[index + 1],
                                       childAt(W, parent, index))
                     ELSE W,
                     parent, processedNodes, index + 1)

\* The removal and reordering loops, given the result of the first loop.
finishKeyed(acc, parent, newChildren, oldChildren, oldDomMap) ==
    reorderFrom(removeOldChildrenFrom(acc.w, parent, oldChildren,
                                      {newChildren[i].key : i \in 1..Len(newChildren)},
                                      oldDomMap, 1),
                parent, acc.nodes, 0)

\* The three loops, given oldKeyMap and oldDomMap.
reconcileWithMaps(W, parent, newChildren, oldChildren, oldKeyMap, oldDomMap) ==
    finishKeyed(processNewChildrenFrom(Processed(W, <<>>), parent, newChildren,
                                       oldKeyMap, oldDomMap, 1),
                parent, newChildren, oldChildren, oldDomMap)

reconcileChildrenWithKeys(W, parent, newChildren, oldChildren) ==
    reconcileWithMaps(W, parent, newChildren, oldChildren,
                      oldKeyMapOf(oldChildren), oldDomMapOf(W, parent, oldChildren))

\* Instrumentation: a point of a render call (its registry read, taking the
\* patch or the first-render branch; its registry write; its return).
noteTrace(W, ev, container) == [W EXCEPT !.trace = Append(@, [ev |-> ev, c |-> container])]

\* A registry write that keeps an entry already present.
registrySetIfAbsent(W, container, vnode) ==
    noteTrace([W EXCEPT !.reg = IF MapHas(@, container) THEN @
                                ELSE MapSet(@, container, vnode)],
              "set", container)

\* this.containerTrees.set(container, vnode)
registrySet(W, container, vnode) ==
    noteTrace([W EXCEPT !.reg = MapSet(@, container, vnode)], "set", container)

\* container.innerHTML = ''; container.appendChild(element)
attachRoot(c, container) == appendChild(clearChildren(c.w, container), container, c.el)

\* The first-render branch of render (60-63).
initialRender(W, vnode, container) == attachRoot(createDOMElement(W, vnode), container)

\* Lines 66-67, reached only when the branch taken did not throw.
finishRender(W, vnode, container) ==
    IF W.exc THEN W ELSE noteTrace(registrySet(W, container, vnode), "return", container)

render(W, vnode, container) ==
    finishRender(IF MapHas(W.reg, container)
                 THEN updateElement(noteTrace(W, "patch", container), container, vnode,
                                    W.reg[container], 0)
                 ELSE initialRender(noteTrace(W, "initial", container), vnode, container),
                 vnode, container)

\* return this.render(app, container), reached when cleanup did not throw
renderAfterCleanup(W, app, container) == IF W.exc THEN W ELSE render(W, app, container)

\* this.vdom.containerTrees.delete(container)
registryDelete(W, container) == [W EXCEPT !.reg = MapDelete(@, container)]

\* MiniFramework.mount(app, container) (framework.js 61-77); the router has
\* no routes.
mount(W, app, container) ==
    renderAfterCleanup(cleanupElement(registryDelete(W, container),
                                      childAt(W, container, 0)),
                       app, container)

\* The handlers registered for (element, eventType), in registration order.
HandlersOf(evh, element, eventType) ==
    IF MapHas(evh, element) /\ MapHas(evh[element], eventType) THEN evh[element][eventType]
    ELSE <<>>

\* What the application's handlers do when called: hThrow throws, hOff
\* calls the unsubscribe function it got from on for the element it runs at.
HandlerThrows(handler) == handler = Fn("hThrow")
HandlerUnsubscribes(handler) == handler = Fn("hOff")

\* A dispatch in progress: the tables, the handlers called so far with the
\* element each ran at, the errors logged, and a propagating exception.
Dispatching(evh) == [evh |-> evh, fired |-> <<>>, logged |-> <<>>, exc |-> FALSE]

\* handler.call(currentElement, event)
callHandler(D, handler, el, eventType) ==
    [D EXCEPT !.fired = Append(@, [handler |-> handler, el |-> el]),
              !.evh = IF HandlerUnsubscribes(handler) THEN offHandler(@, el, eventType, handler)
                      ELSE @,
              !.exc = HandlerThrows(handler)]

\* catch (error) { console.error('Event handler error:', error) }
catchAndLog(D, handler) ==
    IF D.exc THEN [D EXCEPT !.exc = FALSE, !.logged = Append(@, handler)] ELSE D

\* The call without the try block around it.
invokeHandlerUncaught(D, handler, el, eventType) == callHandler(D, handler, el, eventType)

\* try { handler.call(currentElement, event) } catch ...
invokeHandler(D, handler, el, eventType) ==
    catchAndLog(callHandler(D, handler, el, eventType), handler)

\* handlers.forEach(...): indices k..len of the array, len being its length
\* when the loop began; the array is the one in the table, so a handler
\* that unsubscribes during the loop shortens it under the loop.
RECURSIVE forEachHandler(_, _, _, _, _)
forEachHandler(D, el, eventType, k, len) ==
    IF D.exc \/ k > len \/ k > Len(HandlersOf(D.evh, el, eventType)) THEN D
    ELSE forEachHandler(invokeHandler(D, HandlersOf(D.evh, el, eventType)[k], el, eventType),
                        el, eventType, k + 1, len)

\* EventSystem.handleDirectEvents(event, eventType, target): the walk from
\* the target through its ancestors up to the document.
RECURSIVE handleDirectEvents(_, _, _, _)
handleDirectEvents(D, domNow, eventType, currentElement) ==
    IF D.exc \/ currentElement = 0 THEN D
    ELSE handleDirectEvents(
             forEachHandler(D, currentElement, eventType, 1,
                            Len(HandlersOf(D.evh, currentElement, eventType))),
             domNow, eventType, domNow[currentElement].parent)

\* EventSystem.handleGlobalEvent(event); nothing is ever registered with
\* delegate, so handleDelegatedEvents finds no selectors.
handleGlobalEvent(D, domNow, eventType, target) ==
    handleDirectEvents(D, domNow, eventType, target)

\* The host calls each listener of the document that the event reaches.
RECURSIVE callListeners(_, _, _, _, _)
callListeners(D, n, domNow, eventType, target) ==
    IF n = 0 THEN D
    ELSE callListeners(handleGlobalEvent(D, domNow, eventType, target), n - 1,
                       domNow, eventType, target)

(***************************************************************************)
(* The state store (router.js, class Store).                               *)
(***************************************************************************)
\* Subscriber callbacks of the application and what they do when called:
\* s1 and s2 only read; sThrow throws; sOnce calls its own unsubscribe
\* function; sDrop calls the unsubscribe function of s1; sNested dispatches
\* a reset when it is notified of an inc.
s1 == Fn("s1")
s2 == Fn("s2")
sThrow == Fn("sThrow")
sOnce == Fn("sOnce")
sDrop == Fn("sDrop")
sNested == Fn("sNested")

\* Middleware of the application: mLog returns the action it is given,
\* mRename returns an action of type reset.
mLog == Fn("mLog")
mRename == Fn("mRename")

\* A plain-object action, and a thunk (a function given to dispatch).
Act(type) == [kind |-> "object", type |-> type]
ThunkInc == [kind |-> "thunk", type |-> "inc"]

\* The reducers the store is constructed with: inc and reset work on the
\* whole state, todos on the slice of its name.
ReducerNames == {"inc", "reset", "todos"}
Wrap == 3
applyReducer(name, state, action) ==
    CASE name = "inc" -> [state EXCEPT !.n = (@ + 1) % Wrap]
      [] name = "reset" -> [state EXCEPT !.n = 0]
      [] name = "todos" -> (state + 1) % Wrap

\* processedAction.type.includes('/') and processedAction.type.split('/')[0]
IncludesSlash(type) == type \in {"todos/add", "other/x"}
Namespace(type) == IF type = "todos/add" THEN "todos" ELSE "other"

\* new Store(initialState, reducers): no subscribers, no middleware.
InitialState == [n |-> 0, todos |-> 0]
NewStore ==
    [state |-> InitialState, subscribers |-> <<>>, middleware |-> <<>>,
     notes |-> <<>>, calls |-> 0, exc |-> FALSE,
     issued |-> {}, op |-> "none", arg |-> Null, ops |-> 0]

\* What a call of the store did, in order: the begin of a notification
\* round (ev "begin"), a call of a subscriber ("call"), a logged error
\* ("error"), a removal from the subscriber set ("unsub").
Note(ev, id, cb, cur, prev, action, subs) ==
    [ev |-> ev, id |-> id, cb |-> cb, cur |-> cur, prev |-> prev, action |-> action,
     subs |-> subs]
noteStore(S, note) == [S EXCEPT !.notes = Append(@, note)]

\* The function subscribe returns, emptying the subscriber set.
unsubscribeAll(S, callback) ==
    noteStore([S EXCEPT !.subscribers = <<>>],
              Note("unsub", 0, callback, InitialState, InitialState, Act(""), S.subscribers))

\* The function subscribe returns: () => { this.subscribers.delete(callback) }
unsubscribeFn(S, callback) ==
    noteStore([S EXCEPT !.subscribers = SelectSeq(@, LAMBDA c : c # callback)],
              Note("unsub", 0, callback, InitialState, InitialState, Act(""), S.subscribers))

\* Store.subscribe(callback): this.subscribers.add(callback), a Set.
subscribe(S, callback) ==
    IF Includes(S.subscribers, callback) THEN S
    ELSE [S EXCEPT !.subscribers = Append(@, callback)]

\* for (const middleware of this.middleware) processedAction = middleware(...)
RECURSIVE applyMiddleware(_, _, _)
applyMiddleware(middleware, i, action) ==
    IF i > Len(middleware) THEN action
    ELSE applyMiddleware(middleware, i + 1,
                         IF middleware[i] = mRename THEN Act("reset") ELSE action)

\* The "Apply reducers" step left out.
applyNoReducers(state, action) == state

\* The "Apply reducers" step of dispatch.
applyReducers(state, action) ==
    IF action.type \in ReducerNames THEN applyReducer(action.type, state, action)
    ELSE IF IncludesSlash(action.type) /\ Namespace(action.type) \in ReducerNames
    THEN [state EXCEPT ![Namespace(action.type)] =
                           applyReducer(Namespace(action.type), @, action)]
    ELSE state

\* { ...this.state, ...newState }
Merge(state, newState) ==
    [k \in DOMAIN state |-> IF k \in DOMAIN newState THEN newState[k] ELSE state[k]]

\* The first subscriber Set.forEach has not visited yet, Null when none is
\* left: a callback deleted before its turn is not visited.
NextSubscriber(subscribers, visited) ==
    IF SelectSeq(subscribers, LAMBDA c : c \notin visited) = <<>> THEN Null
    ELSE SelectSeq(subscribers, LAMBDA c : c \notin visited)[1]

\* catch (error) { console.error('State subscriber error:', error) }
catchSubscriber(S, callback, id) ==
    IF S.exc
    THEN noteStore([S EXCEPT !.exc = FALSE],
                   Note("error", id, callback, InitialState, InitialState, Act(""), <<>>))
    ELSE S

RECURSIVE dispatch(_, _)
RECURSIVE notifyFrom(_, _, _, _, _, _)

\* callback(currentState, prevState, action)
callSubscriber(S, callback, action) ==
    CASE callback = sThrow -> [S EXCEPT !.exc = TRUE]
      [] callback = sOnce -> unsubscribeFn(S, sOnce)
      [] callback = sDrop -> unsubscribeFn(S, s1)
      [] callback = sNested /\ action.type = "inc" -> dispatch(S, Act("reset"))
      [] OTHER -> S

\* One round of this.subscribers.forEach: try { callback(...) } catch ...
invokeSubscriber(S, callback, cur, prev, action, id) ==
    catchSubscriber(
        callSubscriber(
            noteStore(S, Note("call", id, callback, cur, prev, action, S.subscribers)),
            callback, action),
        callback, id)

notifyFrom(S, visited, cur, prev, action, id) ==
    IF NextSubscriber(S.subscribers, visited) = Null THEN S
    ELSE notifyFrom(invokeSubscriber(S, NextSubscriber(S.subscribers, visited),
                                     cur, prev, action, id),
                    visited \cup {NextSubscriber(S.subscribers, visited)},
                    cur, prev, action, id)

\* Store.notifySubscribers(currentState, prevState, action)
notifySubscribers(S, cur, prev, action) ==
    notifyFrom(noteStore([S EXCEPT !.calls = @ + 1],
                         Note("begin", S.calls + 1, Null, cur, prev, action, S.subscribers)),
               {}, cur, prev, action, S.calls + 1)

\* dispatch after the middleware: reducers, then the subscribers.
dispatchProcessed(S, prev, action) ==
    notifySubscribers([S EXCEPT !.state = applyReducers(@, action)],
                      applyReducers(S.state, action), prev, action)

\* Store.dispatch(action)
dispatch(S, action) ==
    IF action.kind = "thunk" THEN dispatch(S, Act(action.type))
    ELSE dispatchProcessed(S, S.state, applyMiddleware(S.middleware, 1, action))

\* Store.setState(newState, action = { type: 'SET_STATE' })
setState(S, newState) ==
    notifySubscribers([S EXCEPT !.state = Merge(@, newState)],
                      Merge(S.state, newState), S.state, Act("SET_STATE"))

(***************************************************************************)
(* The router (router.js, class Router).                                   *)
(***************************************************************************)
\* Hooks, guards and route handlers of the application and what they do
\* when called: bAllow, gAllow and aLog return nothing, bDeny and gDeny
\* return false, bThrow and rThrow throw, the other handlers return.
bAllow == Fn("bAllow")
bDeny == Fn("bDeny")
bThrow == Fn("bThrow")
gAllow == Fn("gAllow")
gDeny == Fn("gDeny")
aLog == Fn("aLog")
rHome == Fn("rHome")
rA == Fn("rA")
rB == Fn("rB")
rThrow == Fn("rThrow")
rUser == Fn("rUser")

\* What awaiting the call of a hook, guard or handler yields.
Outcome(fn) ==
    CASE fn \in {bDeny, gDeny} -> "false"
      [] fn \in {bThrow, rThrow} -> "throw"
      [] OTHER -> "undefined"

\* A route configuration, as route(path, handler, options) stores it.
RouteConfig(handler, beforeEnter) == [handler |-> handler, beforeEnter |-> beforeEnter]

\* this.routes after the application's route(...) calls.
Routes ==
    [p \in {"/", "/a", "/b", "/c", "/u/:id"} |->
        CASE p = "/" -> RouteConfig(rHome, Undefined)
          [] p = "/a" -> RouteConfig(rA, gDeny)
          [] p = "/b" -> RouteConfig(rB, gAllow)
          [] p = "/c" -> RouteConfig(rThrow, Undefined)
          [] p = "/u/:id" -> RouteConfig(rUser, Undefined)]

\* The paths the host navigates to: the routes' own, one of a user, one
\* whose parameter is not a valid escape sequence, and one nothing matches.
Paths == {"/", "/a", "/b", "/c", "/u/7", "/u/%", "/zzz"}

\* Router.matchRoute(path): the pattern that matches, "" when none does,
\* "throw" when decodeURIComponent raises URIError on the parameter.
matchRoute(path) ==
    CASE path \in {"/", "/a", "/b", "/c"} -> path
      [] path = "/u/7" -> "/u/:id"
      [] path = "/u/%" -> "throw"
      [] OTHER -> ""

\* No route change in progress.
Idle == [pc |-> "idle", id |-> 0, path |-> "", routePath |-> "", i |-> 0, result |-> ""]

\* new Router()
NewRouter ==
    [currentRoute |-> Null, currentPath |-> "", beforeHooks |-> <<>>, afterHooks |-> <<>>,
     isNavigating |-> FALSE, nav |-> Idle, log |-> <<>>, navs |-> 0, ops |-> 0]

\* What the router did: ev is "start", "before", "enter", "handler",
\* "after", "cancel", "done", "error", "notfound", "dropped" or "raise";
\* id numbers the handleRouteChange call, cur is currentPath at the time.
noteRouter(R, ev, id, fn) ==
    [R EXCEPT !.log = Append(@, [ev |-> ev, id |-> id, fn |-> fn, cur |-> R.currentPath])]

\* The call is suspended at an await until the promise settles.
await(R, pc, i, fn) == [R EXCEPT !.nav.pc = pc, !.nav.i = i, !.nav.result = Outcome(fn)]

\* this.isNavigating = false, and the call returns.
finishNavigation(R, ev) ==
    [noteRouter(R, ev, R.nav.id, Null) EXCEPT !.isNavigating = FALSE, !.nav = Idle]

\* catch (error) { this.isNavigating = false; this.handleRouteError(...) }
catchRouteError(R) == finishNavigation(R, "error")

\* for (const hook of this.afterHooks) await this.runHook(hook, routeContext)
startAfter(R, i) ==
    IF i <= Len(R.afterHooks)
    THEN await(noteRouter(R, "after", R.nav.id, R.afterHooks[i]), "after", i, R.afterHooks[i])
    ELSE finishNavigation(R, "done")

\* await this.executeRoute(route, routeContext)
startHandler(R) ==
    await(noteRouter(R, "handler", R.nav.id, Routes[R.nav.routePath].handler),
          "handler", 0, Routes[R.nav.routePath].handler)

\* if (route.beforeEnter) { const result = await this.runHook(...) }
startEnter(R) ==
    IF Routes[R.nav.routePath].beforeEnter # Undefined
    THEN await(noteRouter(R, "enter", R.nav.id, Routes[R.nav.routePath].beforeEnter),
               "enter", 0, Routes[R.nav.routePath].beforeEnter)
    ELSE startHandler(R)

\* for (const hook of this.beforeHooks) { const result = await this.runHook(...) }
startBefore(R, i) ==
    IF i <= Len(R.beforeHooks)
    THEN await(noteRouter(R, "before", R.nav.id, R.beforeHooks[i]), "before", i,
               R.beforeHooks[i])
    ELSE startEnter(R)

\* The test of a hook's result that never cancels.
neverCancelled(result) == FALSE

\* if (result === false)
isCancelled(result) == result = "false"

\* this.currentRoute = routeContext; this.currentPath = targetPath
updateCurrent(R) ==
    [R EXCEPT !.currentRoute = Str(R.nav.path), !.currentPath = R.nav.path]

\* The continuation of handleRouteChange after the await it is suspended at.
resume(R) ==
    IF R.nav.result = "throw" THEN catchRouteError(R)
    ELSE CASE R.nav.pc = "before" ->
                  IF isCancelled(R.nav.result) THEN finishNavigation(R, "cancel")
                  ELSE startBefore(R, R.nav.i + 1)
           [] R.nav.pc = "enter" ->
                  IF isCancelled(R.nav.result) THEN finishNavigation(R, "cancel")
                  ELSE startHandler(R)
           [] R.nav.pc = "handler" -> startAfter(updateCurrent(R), 1)
           [] R.nav.pc = "after" -> startAfter(R, R.nav.i + 1)

\* handleRouteChange(state, path) with a route matched: the context is
\* created and the try block entered.
enterRoute(R, id, path, routePath) ==
    startBefore([R EXCEPT !.nav = [Idle EXCEPT !.id = id, !.path = path,
                                               !.routePath = routePath]], 1)

\* A guard that lets every call through.
neverNavigating(R) == FALSE

\* if (this.isNavigating) return   ("Prevent concurrent route changes")
alreadyNavigating(R) == R.isNavigating

\* Router.handleRouteChange(state, path), up to its first await.
handleRouteChange(R, path) ==
    IF alreadyNavigating(R) THEN noteRouter([R EXCEPT !.navs = @ + 1], "dropped", R.navs + 1, Null)
    ELSE IF matchRoute(path) = "throw"
    THEN noteRouter([R EXCEPT !.navs = @ + 1, !.isNavigating = TRUE], "raise", R.navs + 1, Null)
    ELSE IF matchRoute(path) = ""
    THEN noteRouter([R EXCEPT !.navs = @ + 1], "notfound", R.navs + 1, Null)
    ELSE enterRoute(noteRouter([R EXCEPT !.navs = @ + 1, !.isNavigating = TRUE],
                               "start", R.navs + 1, Null),
                    R.navs + 1, path, matchRoute(path))

(***************************************************************************)
(* State.                                                                  *)
(***************************************************************************)
VARIABLES
    dom,                  \* the host tree
    eventHandlers,        \* EventSystem.eventHandlers
    elementEventHandlers, \* VirtualDOM.elementEventHandlers
    lifecycleHooks,       \* VirtualDOM.lifecycleHooks
    containerTrees,       \* VirtualDOM.containerTrees (the mount registry)
    ops,                  \* number of render / mount calls made
    last,                 \* what the last call was and what it did
    pure,                 \* every call so far was a render that returned normally
                          \* and during which no callback rendered
    scenario,             \* which descriptions the application renders
    built,                \* the last call of the builder and what it returned
    listeners,            \* the listeners installed on the host (node 0: the document)
    tokens,               \* the unsubscribe functions returned by direct calls of on
    store,                \* the application's Store and its unsubscribe functions
    router,               \* the application's Router and its route change in progress
    microtasks            \* the host's microtask queue and the jobs it has run

vars == <<dom, eventHandlers, elementEventHandlers, lifecycleHooks, containerTrees,
          ops, last, pure, scenario, built, listeners, tokens, store, router, microtasks>>

NoCall ==
    [op |-> "none", container |-> 0, vnode |-> NoVNode, ok |-> TRUE, muts |-> 0,
     evops |-> 0, calls |-> <<>>, cleaned |-> <<>>, trace |-> <<>>, fired |-> <<>>,
     eventType |-> "", logged |-> <<>>, observed |-> FALSE, handler |-> Null,
     paths |-> <<>>, writes |-> <<>>, steps |-> <<>>]

\* The world a call starts in.
World ==
    [dom |-> dom, evh |-> eventHandlers, eeh |-> elementEventHandlers,
     hooks |-> lifecycleHooks, reg |-> containerTrees, listeners |-> listeners,
     exc |-> FALSE, busy |-> FALSE,
     muts |-> 0, evops |-> 0, calls |-> <<>>, cleaned |-> <<>>, trace |-> <<>>,
     paths |-> <<>>, writes |-> <<>>, steps |-> <<>>,
     pending |-> microtasks.pending, ran |-> microtasks.ran]

\* No call of the builder has been made.
NoBuild == [call |-> Call(0, 0, "", Undefined, <<>>), result |-> Thrown, made |-> FALSE]

\* The state a call leaves.
Commit(W, op, vnode, container) ==
    /\ dom' = W.dom
    /\ eventHandlers' = W.evh
    /\ elementEventHandlers' = W.eeh
    /\ lifecycleHooks' = W.hooks
    /\ containerTrees' = W.reg
    /\ ops' = ops + 1
    /\ last' = [NoCall EXCEPT !.op = op, !.container = container, !.vnode = vnode,
                              !.ok = ~W.exc, !.muts = W.muts, !.evops = W.evops,
                              !.calls = W.calls, !.cleaned = W.cleaned, !.trace = W.trace,
                              !.paths = W.paths, !.writes = W.writes,
                              !.steps = W.steps]
    /\ pure' = (pure /\ op = "render" /\ ~W.exc /\ Len(W.trace) = 3)
    /\ listeners' = W.listeners
    /\ microtasks' = [pending |-> W.pending, ran |-> W.ran]
    /\ UNCHANGED <<scenario, built, tokens, store, router>>

(***************************************************************************)
(* The descriptions the application renders.  Props(...) builds an         *)
(* attribute object from (name, value) pairs.                              *)
(***************************************************************************)
Props(pairs) == [k \in {pairs[i][1] : i \in 1..Len(pairs)} |->
                    pairs[CHOOSE i \in 1..Len(pairs) : pairs[i][1] = k][2]]

h1 == Fn("h1")
h2 == Fn("h2")
h3 == Fn("h3")
m1 == Fn("m1")
u1 == Fn("u1")
u2 == Fn("u2")
uThrow == Fn("uThrow")
uRender == Fn("uRender")

\* An element with both lifecycle hooks.
Hooked(ref, unmount, children) ==
    VNode(ref, "span", Props(<<<<"onMount", m1>>, <<"onUnmount", unmount>>>>), children)

\* A list item with a key (and an optional click handler).
Item(ref, key) == VNode(ref, "li", Props(<<<<"key", key>>>>), <<>>)

BasicDescriptions ==
    { VNode(1, "div", Props(<<<<"onClick", h1>>>>), <<Hooked(2, u1, <<Text("a")>>)>>),
      VNode(3, "div", Props(<<<<"onClick", h2>>>>), <<>>),
      VNode(4, "div", Props(<<<<"onClick", h1>>>>),
            <<VNode(5, "span", Props(<<<<"onUnmount", u2>>>>), <<>>)>>),
      VNode(6, "div", NoProps, <<Hooked(7, uThrow, <<>>)>>),
      VNode(8, "div", NoProps, <<Hooked(9, uRender, <<>>)>>),
      VNode(10, "p", NoProps, <<Text("x")>>),
      VNode(11, "ul", NoProps, <<VNode(12, "li", NoProps, <<Text("a")>>),
                                 VNode(13, "li", NoProps, <<Text("b")>>),
                                 VNode(14, "li", NoProps, <<Text("c")>>)>>),
      VNode(15, "ul", NoProps, <<VNode(16, "li", NoProps, <<Text("z")>>)>>),
      VNode(17, "ul", NoProps, <<Item(18, Num("1")), Text("t")>>),
      VNode(19, "ul", NoProps, <<Item(20, Num("1")), Item(21, Num("2"))>>),
      VNode(22, "ul", NoProps, <<Item(23, Num("2")), Item(24, Num("1"))>>),
      VNode(25, "p", NoProps, <<Text("y")>>)
    }

\* A list item carrying a data-id attribute next to its key.
ItemWithId(ref, key, dataId) ==
    VNode(ref, "li", Props(<<<<"key", key>>, <<"data-id", dataId>>>>), <<>>)

\* A list of items keyed by the numbers of keys, each a fresh object.
KeyedList(ref, keys) ==
    VNode(ref, "ul", NoProps,
          [i \in 1..Len(keys) |-> Item(ref + i, Num(keys[i]))])

KeyedDescriptions ==
    { KeyedList(100, <<"1", "2", "3">>),
      KeyedList(110, <<"3", "1", "2">>),
      KeyedList(120, <<"2", "1", "3">>),
      KeyedList(130, <<"3", "2", "1">>),
      KeyedList(140, <<"1", "3">>),
      KeyedList(150, <<"2">>),
      KeyedList(160, <<>>),
      KeyedList(170, <<"1", "2", "3">>),
      VNode(180, "ul", NoProps, <<ItemWithId(181, Num("1"), Num("1")), Item(182, Num("2"))>>),
      VNode(190, "ul", NoProps, <<Item(191, Num("2")), ItemWithId(192, Num("1"), Num("1"))>>),
      VNode(200, "ul", NoProps, <<ItemWithId(201, Num("1"), Num("1")), Item(202, Num("2")),
                                  Item(203, Num("3"))>>),
      KeyedList(210, <<"1", "2">>),
      VNode(220, "ul", NoProps, <<VNode(221, "p", Props(<<<<"key", Num("1")>>>>), <<>>),
                                  Item(222, Num("2"))>>)
    }

\* A form control with the given attributes.
Control(ref, tag, pairs) == VNode(ref, tag, Props(pairs), <<>>)

\* Forms whose controls carry checked, value and selected.
AttrDescriptions ==
    { VNode(300, "form", NoProps, <<Control(301, "input", <<<<"checked", Bool("true")>>>>)>>),
      VNode(302, "form", NoProps, <<Control(303, "input", <<<<"checked", Bool("false")>>>>)>>),
      VNode(304, "form", NoProps,
            <<Control(305, "input", <<<<"checked", Bool("true")>>, <<"value", Str("a")>>>>)>>),
      VNode(306, "form", NoProps, <<Control(307, "input", <<<<"value", Str("b")>>>>)>>),
      VNode(308, "form", NoProps, <<Control(309, "input", <<>>)>>),
      VNode(310, "form", NoProps, <<Control(311, "option", <<<<"selected", Bool("true")>>>>)>>),
      Control(312, "input", <<<<"checked", Bool("true")>>>>),
      Control(313, "input", <<<<"checked", Bool("false")>>>>)
    }

\* Handlers the application registers with on.
hThrow == Fn("hThrow")
hOff == Fn("hOff")

\* Elements with handlers on a child and its parent, for click and for
\* types the documentation lists (onKeypress, onFocus).
EventDescriptions ==
    { VNode(400, "div", Props(<<<<"onClick", h1>>>>),
            <<VNode(401, "button", Props(<<<<"onClick", h2>>>>), <<Text("ok")>>)>>),
      VNode(402, "div", NoProps,
            <<VNode(403, "input", Props(<<<<"onKeypress", h3>>, <<"onFocus", h1>>>>), <<>>)>>),
      VNode(404, "div", Props(<<<<"onClick", h1>>>>),
            <<VNode(405, "button", NoProps, <<Text("ok")>>)>>) }

\* Trees whose elements carry unmount hooks at several depths: a parent with
\* a hook and a handler, two sibling subtrees, a hook that throws and one
\* that renders.
u3 == Fn("u3")
u4 == Fn("u4")
HookedWith(ref, unmount, handler, children) ==
    VNode(ref, "span", Props(<<<<"onMount", m1>>, <<"onUnmount", unmount>>,
                               <<"onClick", handler>>>>), children)
CleanupDescriptions ==
    { VNode(700, "div", NoProps,
            <<HookedWith(701, u1, h1, <<HookedWith(702, u2, h2, <<Hooked(703, u3, <<>>)>>),
                                       Hooked(704, u4, <<>>)>>)>>),
      VNode(710, "div", NoProps, <<>>),
      VNode(720, "div", NoProps,
            <<Hooked(721, u1, <<Hooked(722, uThrow, <<Hooked(723, u3, <<>>)>>),
                                Hooked(724, u4, <<>>)>>)>>),
      VNode(730, "div", NoProps,
            <<Hooked(731, uRender, <<Hooked(732, u2, <<>>), Hooked(733, u3, <<>>)>>)>>),
      HookedWith(740, u1, h1, <<Hooked(741, u2, <<>>), Text("t"), Hooked(742, u3, <<>>)>>),
      VNode(750, "p", NoProps, <<Text("x")>>)
    }

\* What an application with two mount points renders into them: elements
\* with handlers and hooks, a hook that throws, texts and keyed lists.
MountDescriptions ==
    { VNode(800, "div", Props(<<<<"onClick", h1>>>>), <<Hooked(801, u1, <<Text("a")>>)>>),
      VNode(810, "div", Props(<<<<"onClick", h2>>>>), <<>>),
      VNode(820, "p", NoProps, <<Text("x")>>),
      VNode(830, "ul", NoProps, <<Item(831, Num("1")), Item(832, Num("2"))>>),
      VNode(840, "ul", NoProps, <<Item(841, Num("2")), Item(842, Num("1"))>>),
      VNode(850, "div", NoProps, <<Hooked(851, uThrow, <<>>)>>)
    }

\* Elements with an onMount function, alone and as siblings, the same element
\* with another onMount function, and elements without one.
m2 == Fn("m2")
LifecycleDescriptions ==
    { Hooked(900, u1, <<Text("a")>>),
      VNode(901, "span", Props(<<<<"onMount", m2>>, <<"onUnmount", u1>>>>), <<Text("b")>>),
      VNode(902, "span", NoProps, <<>>),
      VNode(903, "div", NoProps, <<Hooked(904, u1, <<>>), Hooked(905, u2, <<>>)>>),
      VNode(906, "div", NoProps, <<Hooked(907, u1, <<>>)>>),
      VNode(908, "p", NoProps, <<Text("x")>>)
    }

\* A list item with a key and a text.
ItemText(ref, key, text) == VNode(ref, "li", Props(<<<<"key", key>>>>), <<Text(text)>>)

\* Lists in which two siblings carry the same key, and lists with distinct keys.
DupKeyDescriptions ==
    { VNode(600, "ul", NoProps, <<ItemText(601, Num("1"), "a"), ItemText(602, Num("1"), "b")>>),
      VNode(610, "ul", NoProps, <<ItemText(611, Num("1"), "a"), ItemText(612, Num("2"), "b")>>),
      VNode(620, "ul", NoProps, <<ItemText(621, Num("1"), "c")>>),
      VNode(630, "ul", NoProps, <<ItemText(631, Num("2"), "a"), ItemText(632, Num("1"), "b"),
                                  ItemText(633, Num("2"), "c")>>),
      VNode(640, "ul", NoProps, <<>>)
    }

\* Single elements that differ in their attributes only: class, style mapping,
\* htmlFor, data-, title, autofocus, a handler, and property-routed controls.
PropDescriptions ==
    { Control(500, "label", <<>>),
      Control(501, "label", <<<<"className", Str("a")>>>>),
      Control(502, "label", <<<<"className", Undefined>>>>),
      Control(503, "label", <<<<"style", Obj("red")>>>>),
      Control(504, "label", <<<<"style", Obj("redBold")>>>>),
      Control(505, "label", <<<<"style", Obj("bold")>>>>),
      Control(506, "label", <<<<"htmlFor", Str("x")>>, <<"data-id", Num("1")>>>>),
      Control(507, "label", <<<<"title", Str("t")>>, <<"onClick", h1>>>>),
      Control(508, "label", <<<<"autofocus", Bool("true")>>, <<"style", Str("color: red")>>>>),
      Control(509, "label", <<<<"checked", Bool("true")>>, <<"value", Str("a")>>>>),
      Control(510, "label", <<<<"title", Undefined>>, <<"style", Null>>>>)
    }

Descriptions ==
    CASE scenario = "basic" -> BasicDescriptions
      [] scenario = "keyed" -> KeyedDescriptions
      [] scenario = "attrs" -> AttrDescriptions
      [] scenario = "events" -> EventDescriptions
      [] scenario = "props" -> PropDescriptions
      [] scenario = "dupkeys" -> DupKeyDescriptions
      [] scenario = "cleanup" -> CleanupDescriptions
      [] scenario = "mounts" -> MountDescriptions
      [] scenario = "lifecycle" -> LifecycleDescriptions
      [] OTHER -> {}

(***************************************************************************)
(* Initial state: a framework instance (framework.js 11-24) and two empty  *)
(* mount points in the document.                                           *)
(***************************************************************************)
InitWith(s) ==
    /\ dom = <<ElementNode("div"), ElementNode("div")>>
    /\ eventHandlers = EmptyMap
    /\ elementEventHandlers = EmptyMap
    /\ lifecycleHooks = EmptyMap
    /\ containerTrees = EmptyMap
    /\ ops = 0
    /\ last = NoCall
    /\ pure = TRUE
    /\ scenario = s
    /\ built = NoBuild
    /\ listeners = setupGlobalDelegation
    /\ tokens = {}
    /\ store = NewStore
    /\ router = NewRouter
    /\ microtasks = [pending |-> <<>>, ran |-> <<>>]

Init == InitWith("basic")

(***************************************************************************)
(* Actions: one per entry point.                                           *)
(***************************************************************************)
\* framework.render(vnode, container)
Render(vnode, container) ==
    /\ ops < MaxOps
    /\ Commit(render(World, vnode, container), "render", vnode, container)

\* framework.mount(app, container)
Mount(app, container) ==
    /\ ops < MaxOps
    /\ Commit(mount(World, app, container), "mount", app, container)

\* The element is attached to the document (under a mount point).
RECURSIVE Attached(_, _)
Attached(d, n) ==
    IF n \in Mounts THEN TRUE
    ELSE IF d[n].parent = 0 THEN FALSE
    ELSE Attached(d, d[n].parent)

\* What a dispatch leaves behind.
CommitDispatch(D, eventType, target) ==
    /\ eventHandlers' = D.evh
    /\ last' = [NoCall EXCEPT !.op = "event", !.container = target, !.eventType = eventType,
                              !.fired = D.fired, !.logged = D.logged, !.ok = ~D.exc,
                              !.observed = DocumentListeners(listeners, eventType) # <<>>]
    /\ UNCHANGED <<dom, elementEventHandlers, lifecycleHooks, containerTrees, ops, pure,
                   scenario, built, listeners, tokens, store, router, microtasks>>

\* A user interaction: the host dispatches an event of type eventType at target.
Dispatch(eventType, target) ==
    /\ last.op # "event"
    /\ Attached(dom, target)
    /\ CommitDispatch(callListeners(Dispatching(eventHandlers),
                                    Len(DocumentListeners(listeners, eventType)),
                                    dom, eventType, target),
                      eventType, target)

Next ==
    \/ \E vnode \in Descriptions : Render(vnode, M1)
    \/ \E app \in Descriptions : Mount(app, M1)
    \/ \E target \in 1..Len(dom) : Dispatch("click", target)

Spec == Init /\ [][Next]_vars

\* The application renders keyed lists.
InitKeyed == InitWith("keyed")
SpecKeyed == InitKeyed /\ [][Next]_vars

\* The application re-renders one element with changing attributes.
InitProps == InitWith("props")
SpecProps == InitProps /\ [][Next]_vars

\* The application renders lists in which siblings share a key.
InitDupKeys == InitWith("dupkeys")
SpecDupKeys == InitDupKeys /\ [][Next]_vars

\* The application replaces trees whose elements carry unmount hooks.
InitCleanup == InitWith("cleanup")
SpecCleanup == InitCleanup /\ [][Next]_vars

\* The application renders into two mount points in any order.
NextMounts ==
    \/ \E vnode \in Descriptions, container \in Mounts : Render(vnode, container)
    \/ \E app \in Descriptions, container \in Mounts : Mount(app, container)

InitMounts == InitWith("mounts")
SpecMounts == InitMounts /\ [][NextMounts]_vars

\* The host runs the oldest queued job: () => vnode.props.onMount(element).
\* The onMount callbacks of the model return without touching the framework.
RunMicrotask ==
    /\ microtasks.pending # <<>>
    /\ microtasks' = [pending |-> Tail(microtasks.pending),
                      ran |-> Append(microtasks.ran, Head(microtasks.pending))]
    /\ last' = [NoCall EXCEPT !.op = "microtask"]
    /\ UNCHANGED <<dom, eventHandlers, elementEventHandlers, lifecycleHooks, containerTrees,
                   ops, pure, scenario, built, listeners, tokens, store, router>>

\* The application renders elements with onMount callbacks; the host drains
\* its microtask queue whenever no call of the application is running.
NextLifecycle ==
    \/ \E vnode \in Descriptions : Render(vnode, M1)
    \/ \E app \in Descriptions : Mount(app, M1)
    \/ RunMicrotask

InitLifecycle == InitWith("lifecycle")
SpecLifecycle == InitLifecycle /\ [][NextLifecycle]_vars /\ WF_vars(RunMicrotask)

(***************************************************************************)
(* Calls of the builder.                                                   *)
(***************************************************************************)
MaxArgs == 2
MaxStoreOps == 4
MaxRouterOps == 3

\* A description passed as a child.
ChildObject == VNode(401, "b", NoProps, <<>>)

ChildArgs ==
    { Null, Undefined, Bool("false"), Bool("true"), Num("0"), Str("a"), Str(""), ChildObject,
      Arr(<<>>),
      Arr(<<Str("a"), Null>>),
      Arr(<<Arr(<<Num("0"), Bool("false")>>), ChildObject>>),
      Arr(<<Arr(<<Arr(<<Str("b")>>)>>), Undefined, Bool("true")>>) }

PropsArgs ==
    { Undefined, Null, NoProps,
      Props(<<<<"key", Num("0")>>>>), Props(<<<<"key", Num("1")>>>>),
      Props(<<<<"key", Str("")>>>>), Props(<<<<"key", Str("a")>>>>) }

\* createElement('div') and createElement('div', props, ...children)
Calls ==
    { Call(500, 1, "div", Undefined, <<>>) }
    \cup { Call(500, 2 + Len(c), "div", p, c) :
               p \in PropsArgs, c \in UNION {[1..n -> ChildArgs] : n \in 0..MaxArgs} }

\* framework.createElement(tag, props, ...children)
Build(call) ==
    /\ ~built.made
    /\ built' = [call |-> call, result |-> createElement(call), made |-> TRUE]
    /\ UNCHANGED <<dom, eventHandlers, elementEventHandlers, lifecycleHooks,
                   containerTrees, ops, last, pure, scenario, listeners, tokens,
                   store, router, microtasks>>

NextBuilder == \E call \in Calls : Build(call)

InitBuilder == InitWith("builder")
SpecBuilder == InitBuilder /\ [][NextBuilder]_vars

\* The application renders form controls.
InitAttrs == InitWith("attrs")
SpecAttrs == InitAttrs /\ [][Next]_vars

(***************************************************************************)
(* The dispatch layer used directly: the application registers handlers    *)
(* with framework.events.on, calls the unsubscribe functions it got back,  *)
(* and the user interacts with the page.                                   *)
(***************************************************************************)
\* The unsubscribe function on returns: () => this.off(element, eventType, handler)
Unsubscriber(element, eventType, handler) ==
    [element |-> element, eventType |-> eventType, handler |-> handler]

\* What a direct call of the dispatch layer leaves behind.
CommitEvents(evh, op, element, eventType, handler) ==
    /\ eventHandlers' = evh
    /\ ops' = ops + 1
    /\ pure' = FALSE
    /\ last' = [NoCall EXCEPT !.op = op, !.container = element, !.eventType = eventType,
                              !.handler = handler]
    /\ UNCHANGED <<dom, elementEventHandlers, lifecycleHooks, containerTrees, scenario,
                   built, listeners, store, router, microtasks>>

\* framework.events.on(element, eventType, handler) on a rendered element.
On(element, eventType, handler) ==
    /\ ops < MaxOps
    /\ element \notin Mounts
    /\ dom[element].kind = "elem"
    /\ Attached(dom, element)
    /\ tokens' = tokens \cup {Unsubscriber(element, eventType, handler)}
    /\ CommitEvents(onHandler(eventHandlers, element, eventType, handler),
                    "on", element, eventType, handler)

\* A call of an unsubscribe function on returned.
Unsubscribe(token) ==
    /\ ops < MaxOps
    /\ UNCHANGED tokens
    /\ CommitEvents(offHandler(eventHandlers, token.element, token.eventType, token.handler),
                    "unsubscribe", token.element, token.eventType, token.handler)

\* Event types the user's interactions have in this scenario.
DispatchTypes == {"click", "keypress", "focus"}

NextEvents ==
    \/ \E vnode \in Descriptions : Render(vnode, M1)
    \/ \E element \in 1..Len(dom), handler \in {h3, hThrow, hOff} :
           On(element, "click", handler)
    \/ \E token \in tokens : Unsubscribe(token)
    \/ \E eventType \in DispatchTypes, target \in 1..Len(dom) : Dispatch(eventType, target)

InitEvents == InitWith("events")
SpecEvents == InitEvents /\ [][NextEvents]_vars

(***************************************************************************)
(* The store used by the application: it subscribes callbacks, calls the   *)
(* unsubscribe functions it got back, installs middleware, dispatches      *)
(* actions and sets state.                                                 *)
(***************************************************************************)
\* The variables of the reconciler and the dispatch layer.
uiVars == <<dom, eventHandlers, elementEventHandlers, lifecycleHooks, containerTrees,
            ops, last, pure, scenario, built, listeners, tokens, microtasks>>

\* The store as a call finds it: the record of the previous call is dropped.
StoreWorld == [store EXCEPT !.notes = <<>>, !.calls = 0, !.exc = FALSE]

\* What a call of the store leaves behind.
CommitStore(S, op, arg) ==
    /\ store' = [S EXCEPT !.op = op, !.arg = arg, !.ops = @ + 1]
    /\ UNCHANGED <<uiVars, router>>

\* unsubscribe = store.subscribe(callback); the application keeps the function.
Subscribe(callback) ==
    /\ store.ops < MaxStoreOps
    /\ CommitStore([subscribe(StoreWorld, callback) EXCEPT !.issued = @ \cup {callback}],
                   "subscribe", callback)

\* A call of a function subscribe returned.
UnsubscribeStore(callback) ==
    /\ store.ops < MaxStoreOps
    /\ callback \in store.issued
    /\ CommitStore(unsubscribeFn(StoreWorld, callback), "unsubscribe", callback)

\* store.addMiddleware(middleware)
AddMiddleware(middleware) ==
    /\ store.ops < MaxStoreOps
    /\ Len(store.middleware) < 1
    /\ CommitStore([StoreWorld EXCEPT !.middleware = Append(@, middleware)],
                   "addMiddleware", middleware)

\* store.dispatch(action)
StoreDispatch(action) ==
    /\ store.ops < MaxStoreOps
    /\ CommitStore(dispatch(StoreWorld, action), "dispatch", action)

\* store.setState(newState)
SetState(newState) ==
    /\ store.ops < MaxStoreOps
    /\ CommitStore(setState(StoreWorld, newState), "setState", newState)

\* The callbacks, actions and partial states of the application.
Subscribers == {s1, s2, sThrow, sOnce, sDrop, sNested}
Actions == {Act("inc"), Act("reset"), Act("todos/add"), Act("other/x"), Act("noop"), ThunkInc}

NextStore ==
    \/ \E callback \in Subscribers : Subscribe(callback)
    \/ \E callback \in store.issued : UnsubscribeStore(callback)
    \/ \E middleware \in {mLog, mRename} : AddMiddleware(middleware)
    \/ \E action \in Actions : StoreDispatch(action)
    \/ \E n \in {1, 2} : SetState([n |-> n])

InitStore == InitWith("store")
SpecStore == InitStore /\ [][NextStore]_vars

(***************************************************************************)
(* The router used by the application: it registers hooks, the host        *)
(* reports route changes, and a suspended handleRouteChange continues      *)
(* when the promise it awaits settles.                                     *)
(***************************************************************************)
\* What a call of the router's interface leaves behind.
CommitRouter(R) ==
    /\ router' = [R EXCEPT !.ops = @ + 1]
    /\ UNCHANGED <<uiVars, store>>

\* router.beforeEach(hook)
BeforeEach(hook) ==
    /\ router.ops < MaxRouterOps
    /\ Len(router.beforeHooks) < 2
    /\ CommitRouter([router EXCEPT !.beforeHooks = Append(@, hook)])

\* router.afterEach(hook)
AfterEach(hook) ==
    /\ router.ops < MaxRouterOps
    /\ Len(router.afterHooks) < 1
    /\ CommitRouter([router EXCEPT !.afterHooks = Append(@, hook)])

\* A hashchange or popstate event, or navigate in history mode: the call
\* of handleRouteChange up to its first await.
RouteChange(path) ==
    /\ router.ops < MaxRouterOps
    /\ CommitRouter(handleRouteChange(router, path))

\* The promise a suspended handleRouteChange awaits has settled.
Resume ==
    /\ router.nav.pc # "idle"
    /\ router' = resume(router)
    /\ UNCHANGED <<uiVars, store>>

NextRouter ==
    \/ \E hook \in {bAllow, bDeny, bThrow} : BeforeEach(hook)
    \/ AfterEach(aLog)
    \/ \E path \in Paths : RouteChange(path)
    \/ Resume

InitRouter == InitWith("router")
SpecRouter == InitRouter /\ [][NextRouter]_vars

\* The same router where every promise a route change awaits settles: the
\* hooks, guards and handlers of the model all return or throw.
SpecRouterFair == InitRouter /\ [][NextRouter]_vars /\ WF_vars(Resume)

(***************************************************************************)
(* Properties.                                                             *)
(***************************************************************************)
\* The live node n and its subtree are what the description vnode describes:
\* same kind, same tag or string, and one live child per child description,
\* in order.
RECURSIVE Matches(_, _, _)
Matches(d, n, vnode) ==
    IF vnode.type = "text"
    THEN d[n].kind = "text" /\ d[n].text = vnode.value
    ELSE /\ d[n].kind = "elem"
         /\ d[n].tag = vnode.tag
         /\ Len(d[n].kids) = Len(vnode.children)
         /\ \A i \in 1..Len(vnode.children) : Matches(d, d[n].kids[i], vnode.children[i])

\* A render call has just returned normally.
Rendered == last.op = "render" /\ last.ok

\* C1: after any sequence of render calls on one mount point, each run to
\* completion, the live subtree under the mount point matches the
\* description passed to the last call.
C1_LiveTreeMatchesLastRender ==
    (pure /\ last.op = "render") =>
        /\ Len(dom[last.container].kids) = 1
        /\ Matches(dom, dom[last.container].kids[1], last.vnode)

\* The step is a render call.
RenderStep == ops' = ops + 1 /\ last'.op = "render"

\* C2: rendering the same description object twice in a row to the same
\* mount point performs no host-tree mutation and no handler registration
\* or removal on the second call.
C2_SecondRenderOfSameObjectIsSilent ==
    [][(/\ RenderStep
        /\ pure'
        /\ last.op = "render"
        /\ last'.vnode = last.vnode
        /\ last'.container = last.container)
       => (/\ last'.muts = 0
           /\ last'.evops = 0
           /\ dom' = dom
           /\ eventHandlers' = eventHandlers
           /\ elementEventHandlers' = elementEventHandlers)]_vars

\* The description is an element whose children are all elements carrying
\* a key, no two the same.
IsKeyedList(vnode) ==
    /\ vnode.type = "elem"
    /\ \A i \in 1..Len(vnode.children) :
           vnode.children[i].type = "elem" /\ HasKey(vnode.children[i])
    /\ \A i, j \in 1..Len(vnode.children) :
           vnode.children[i].key = vnode.children[j].key => i = j

KeysOf(vnode) == {vnode.children[i].key : i \in 1..Len(vnode.children)}

\* The root live node of a mount point.
RootOf(d, container) == d[container].kids[1]

\* A keyed list has been rendered (and is live as described) and the step
\* re-renders it as a keyed list with the same root.
KeyedRerender ==
    /\ RenderStep
    /\ pure'
    /\ last.op = "render"
    /\ last'.container = last.container
    /\ IsKeyedList(last.vnode)
    /\ IsKeyedList(last'.vnode)
    /\ ~hasNodeChanged(last'.vnode, last.vnode)
    /\ Matches(dom, RootOf(dom, last.container), last.vnode)

\* C3: key stability.  Re-rendering a keyed sibling list as a permutation
\* with the same keys creates no node, removes none, keeps the live node of
\* every key and puts the live children in the new order.
C3_KeyStability ==
    [][(KeyedRerender /\ KeysOf(last'.vnode) = KeysOf(last.vnode))
       => (/\ Len(dom') = Len(dom)
           /\ last'.cleaned = <<>>
           /\ RootOf(dom', last.container) = RootOf(dom, last.container)
           /\ Len(dom'[RootOf(dom, last.container)].kids) = Len(last'.vnode.children)
           /\ \A i, j \in 1..Len(last.vnode.children) :
                  last.vnode.children[i].key = last'.vnode.children[j].key
                  => dom'[RootOf(dom, last.container)].kids[j]
                         = dom[RootOf(dom, last.container)].kids[i])]_vars

\* The number of times x occurs in the sequence s.
Count(s, x) == Cardinality({i \in 1..Len(s) : s[i] = x})

\* C4: keyed removal.  Re-rendering a keyed list with a subset of its keys
\* detaches exactly the live nodes of the absent keys, cleans each of them
\* up exactly once, and leaves the live nodes of the kept keys.
C4_KeyedRemoval ==
    [][(KeyedRerender /\ KeysOf(last'.vnode) \subseteq KeysOf(last.vnode))
       => (\A i \in 1..Len(last.vnode.children) :
              LET n == dom[RootOf(dom, last.container)].kids[i] IN
              IF last.vnode.children[i].key \in KeysOf(last'.vnode)
              THEN /\ dom'[n].parent = RootOf(dom, last.container)
                   /\ Count(last'.cleaned, n) = 0
              ELSE /\ dom'[n].parent = 0
                   /\ Count(last'.cleaned, n) = 1)
          /\ Len(dom'[RootOf(dom, last.container)].kids) = Len(last'.vnode.children)]_vars

\* The invocations of unmount hooks on element n during the last call.
CallsOn(n) == SelectSeq(last.calls, LAMBDA c : c.el = n)

\* C5: whenever a render permanently detaches a live element, the unmount
\* hook supplied in that element's description is invoked exactly once with
\* that element; the same holds for its descendants, which are detached
\* with it.
C5_UnmountHookOnDetach ==
    [][(RenderStep /\ pure')
       => \A n \in 1..Len(dom) :
              (/\ dom[n].kind = "elem"
               /\ Attached(dom, n)
               /\ ~Attached(dom', n)
               /\ IsFunction(Prop(dom[n].desc, "onUnmount")))
              => CallsOn(n)' = <<[hook |-> dom[n].desc["onUnmount"], el |-> n]>>]_vars

\* The live nodes for which a handler registration, a per-element handler
\* record or a lifecycle record exists.
Registered ==
    (DOMAIN eventHandlers) \cup (DOMAIN elementEventHandlers) \cup (DOMAIN lifecycleHooks)

\* C6: no handler leaks.  After every completed render, whichever path it
\* took, every node still holding a handler registration, a per-element
\* handler record or a lifecycle record is attached under a mount point.
C6_NoHandlerLeaks ==
    Rendered => \A n \in Registered : Attached(dom, n)

\* The handlers a click observed at element n in the state (d, evh) invokes
\* on n itself, in order.
FiredAt(d, evh, n) ==
    SelectSeq(handleDirectEvents(Dispatching(evh), d, "click", n).fired, LAMBDA f : f.el = n)

\* C7: handler replacement.  When a render that returns normally re-renders
\* a live element, last rendered with click handler h1, with a different
\* click handler h2, the dispatch layer afterwards holds exactly one click
\* registration for the element, namely h2, and a click at the element
\* invokes h2 exactly once and never h1.
C7_HandlerReplacement ==
    [][(RenderStep /\ last'.ok)
       => \A n \in 1..Len(dom) :
              (/\ dom[n].kind = "elem"
               /\ Attached(dom, n)
               /\ Attached(dom', n)
               /\ IsFunction(Prop(dom[n].desc, "onClick"))
               /\ IsFunction(Prop(dom'[n].desc, "onClick"))
               /\ dom'[n].desc["onClick"] # dom[n].desc["onClick"])
              => (/\ MapHas(eventHandlers', n)
                  /\ MapHas(eventHandlers'[n], "click")
                  /\ eventHandlers'[n]["click"] = <<dom'[n].desc["onClick"]>>
                  /\ FiredAt(dom', eventHandlers', n)
                         = <<[handler |-> dom'[n].desc["onClick"], el |-> n]>>)]_vars

\* C8: when render(d, m) returns normally the registry maps m to exactly d;
\* the call took the patch path if and only if the registry held an entry
\* for m when it was called, and otherwise it materialized d into new nodes
\* and made the new root the only content of m.
C8_RegistryAfterRender ==
    [][(RenderStep /\ last'.ok)
       => (/\ MapHas(containerTrees', last'.container)
           /\ containerTrees'[last'.container] = last'.vnode
           /\ DOMAIN containerTrees' = DOMAIN containerTrees \cup {last'.container}
           /\ (last'.trace[1].ev = "patch") <=> MapHas(containerTrees, last'.container)
           /\ ~MapHas(containerTrees, last'.container)
              => (/\ last'.trace[1].ev = "initial"
                  /\ Len(dom'[last'.container].kids) = 1
                  /\ RootOf(dom', last'.container) > Len(dom)
                  /\ Matches(dom', RootOf(dom', last'.container), last'.vnode)
                  /\ \A i \in 1..Len(dom[last'.container].kids) :
                         dom'[dom[last'.container].kids[i]].parent = 0))]_vars

\* A render has returned normally after taking the first-render path on a
\* mount point that had content: the old root is detached, the registry
\* maps the mount point to the description rendered.
C8_Witness ==
    /\ Rendered
    /\ last.trace[1].ev = "initial"
    /\ containerTrees[last.container] = last.vnode
    /\ \E n \in 1..Len(dom) : n \notin Mounts /\ dom[n].kind = "elem" /\ dom[n].parent = 0
                              /\ dom[n].tag = "div"

\* C9: if a render call raises, the registry entry of its mount point is
\* left exactly as it was before the call.
C9_RegistryUnchangedOnFailure ==
    [][(RenderStep /\ ~last'.ok) => containerTrees' = containerTrees]_vars

\* A point where a render call reads the registry entry of container c.
IsRead(e, c) == e.c = c /\ e.ev \in {"patch", "initial"}

\* C10: two render calls against the same mount point never interleave: a
\* render of a mount point does not read the registry between the registry
\* read of another render of that mount point and that render's return.
C10_NoInterleaving ==
    \A i, j \in 1..Len(last.trace) :
        (i < j /\ IsRead(last.trace[i], last.trace[i].c)
               /\ IsRead(last.trace[j], last.trace[i].c))
        => \E k \in (i + 1)..(j - 1) :
               last.trace[k].ev = "return" /\ last.trace[k].c = last.trace[i].c

\* The description is an element with exactly one child, a text leaf.
HasSingleText(vnode) ==
    vnode.type = "elem" /\ Len(vnode.children) = 1 /\ vnode.children[1].type = "text"

\* The step re-renders the element registered for the mount point, live as
\* described with its single text child, with the same tag, key and
\* attributes and a different string.
TextRerender ==
    /\ RenderStep
    /\ last'.ok
    /\ MapHas(containerTrees, last'.container)
    /\ HasSingleText(containerTrees[last'.container])
    /\ HasSingleText(last'.vnode)
    /\ ~hasNodeChanged(last'.vnode, containerTrees[last'.container])
    /\ last'.vnode.props = containerTrees[last'.container].props
    /\ last'.vnode.children[1].value # containerTrees[last'.container].children[1].value
    /\ Len(dom[last'.container].kids) = 1
    /\ Matches(dom, RootOf(dom, last'.container), containerTrees[last'.container])

\* C11: text update in place.  Re-rendering an element with a single text
\* child with the same tag and a different string overwrites only the
\* content of the live text node: the element and the text node keep their
\* identities, no node is created, removed or replaced, nothing is cleaned up.
C11_TextUpdateInPlace ==
    [][TextRerender
       => (/\ dom' = [dom EXCEPT ![dom[RootOf(dom, last'.container)].kids[1]].text =
                                     last'.vnode.children[1].value]
           /\ last'.muts = 1
           /\ last'.cleaned = <<>>
           /\ last'.evops = 0)]_vars

\* A render has just overwritten the string of the text node created by the
\* first render of the mount point: the only nodes are the two mount points,
\* the element and its text node.
C11_Witness ==
    /\ Rendered
    /\ ops = 2
    /\ last.trace[1].ev = "patch"
    /\ last.muts = 1
    /\ Len(dom) = 4
    /\ HasSingleText(last.vnode)
    /\ dom[4].kind = "text"
    /\ dom[4].text = last.vnode.children[1].value
    /\ dom[4].parent = 3
    /\ dom[3].parent = M1

\* The attributes routed to live object properties.
LiveRouted == {"checked", "value", "selected"}

\* C12: property routing.  checked, value and selected are written as live
\* object properties and never as string attributes, in materialization and
\* in update: no live element ever carries one of them as an attribute, and
\* an attached element whose description supplies one of them holds the
\* supplied value as its live property (so checked=true then checked=false
\* leaves the live property false).
C12_PropertyRouting ==
    \A n \in 1..Len(dom) :
        /\ (DOMAIN dom[n].attrs) \cap LiveRouted = {}
        /\ Attached(dom, n)
           => \A k \in (DOMAIN dom[n].desc) \cap LiveRouted :
                  MapHas(dom[n].live, k) /\ dom[n].live[k] = dom[n].desc[k]

\* A control materialized by the first render has been re-rendered with
\* checked=false by a render whose only host write was that property: the
\* same live node now holds the live property false.
C12_Witness ==
    /\ Rendered
    /\ last.trace[1].ev = "patch"
    /\ last.muts = 1
    /\ \E n \in 1..Len(dom) :
           /\ Attached(dom, n)
           /\ dom[n].tag = "input"
           /\ n <= 4
           /\ ops = 2
           /\ MapHas(dom[n].live, "checked")
           /\ dom[n].live["checked"] = Bool("false")

\* The keys of the children of a description, in order.
KeySeq(vnode) == [i \in 1..Len(vnode.children) |-> vnode.children[i].key]

\* C13: keyed append.  Re-rendering a keyed list with all previous keys in
\* the same order plus one new key at the end creates exactly one live node,
\* which becomes the last child; every previous item's live node keeps its
\* identity and its position, and nothing is cleaned up.
C13_KeyedAppend ==
    [][(/\ KeyedRerender
        /\ Len(last'.vnode.children) = Len(last.vnode.children) + 1
        /\ SubSeq(KeySeq(last'.vnode), 1, Len(last.vnode.children)) = KeySeq(last.vnode))
       => (/\ Len(dom') = Len(dom) + 1
           /\ RootOf(dom', last.container) = RootOf(dom, last.container)
           /\ dom'[RootOf(dom, last.container)].kids
                  = Append(dom[RootOf(dom, last.container)].kids, Len(dom) + 1)
           /\ last'.cleaned = <<>>)]_vars

\* The leaves of a child argument, depth first and left to right.
RECURSIVE Leaves(_)
RECURSIVE LeavesOfAll(_)
Leaves(child) == IF IsArray(child) THEN LeavesOfAll(child.items) ELSE <<child>>
LeavesOfAll(children) ==
    IF children = <<>> THEN <<>> ELSE Leaves(Head(children)) \o LeavesOfAll(Tail(children))

\* null, undefined and false render nothing.
IsDropped(child) == child = Null \/ child = Undefined \/ child = Bool("false")

\* The string form of a string or a number.
StringForm(child) == IF child.ty = "nan" THEN "NaN" ELSE child.v

\* The child a kept leaf becomes.
AsChild(leaf) ==
    IF "ty" \in DOMAIN leaf /\ leaf.ty \in {"str", "num", "nan"}
    THEN Text(StringForm(leaf))
    ELSE leaf

\* The builder was called with a tag and an attribute argument that is an
\* object or undefined.
BuiltElement == built.made /\ built.call.argc >= 2 /\ built.call.props # Null

\* Nothing but the builder's result has changed since construction.
Untouched ==
    /\ dom = <<ElementNode("div"), ElementNode("div")>>
    /\ eventHandlers = EmptyMap
    /\ elementEventHandlers = EmptyMap
    /\ lifecycleHooks = EmptyMap
    /\ containerTrees = EmptyMap

\* C14: for any children arguments the builder returns an element whose
\* children are the depth-first left-to-right flattening of all nested
\* arrays, with every null, undefined and false dropped, every string and
\* number replaced by a text leaf holding its string form and every other
\* entry kept unchanged in order; it has no side effect.
C14_BuilderFlattensChildren ==
    BuiltElement
    => (/\ ~built.result.threw
        /\ built.result.value.type = "elem"
        /\ built.result.value.tag = built.call.tag
        /\ built.result.value.children
               = [i \in 1..Len(SelectSeq(LeavesOfAll(built.call.children),
                                         LAMBDA c : ~IsDropped(c))) |->
                      AsChild(SelectSeq(LeavesOfAll(built.call.children),
                                        LAMBDA c : ~IsDropped(c))[i])]
        /\ Untouched)

\* The builder has flattened an array nested three deep, dropped the
\* undefined in it and turned a string and a number into text leaves.
C14_Witness ==
    /\ BuiltElement
    /\ built.call.children
           = <<Arr(<<Arr(<<Arr(<<Str("b")>>)>>), Undefined, Bool("true")>>), Num("0")>>
    /\ built.result.value.children = <<Text("b"), Bool("true"), Text("0")>>

\* A key of the attributes is a primitive value.
IsPrimitive(x) == x.ty \in {"num", "str"}

\* C15: the builder records the key given in the attributes as the
\* element's reconciliation key for every primitive key value, 0 and the
\* empty string included, so that child reconciliation treats the element
\* as keyed.
C15_BuilderRecordsKey ==
    (/\ BuiltElement
     /\ built.call.props # Undefined
     /\ MapHas(built.call.props, "key")
     /\ IsPrimitive(built.call.props["key"]))
    => (/\ ~built.result.threw
        /\ built.result.value.key = built.call.props["key"]
        /\ hasKeys(<<built.result.value>>, <<>>))

(***************************************************************************)
(* The event dispatch layer.                                               *)
(***************************************************************************)
\* The nodes that carry at least one handler.
NodesWithHandlers ==
    {n \in DOMAIN eventHandlers : \E t \in DOMAIN eventHandlers[n] : eventHandlers[n][t] # <<>>}

\* C16: one root listener per event type.  The listeners installed on the
\* host are exactly those the construction of the EventSystem installed on
\* the document: every one is on the document, no two are for the same
\* event type, and no on or off call and no render adds or removes one,
\* however many nodes carry handlers.
C16_OneRootListenerPerType ==
    /\ listeners = setupGlobalDelegation
    /\ \A i \in 1..Len(listeners) : listeners[i].node = 0
    /\ \A i, j \in 1..Len(listeners) : listeners[i].type = listeners[j].type => i = j

\* Two nodes carry handlers, registered by a render and by a direct on
\* call, and an unsubscribe function has been called.
C16_Witness ==
    /\ Cardinality(NodesWithHandlers) >= 2
    /\ last.op = "unsubscribe"
    /\ \E n \in NodesWithHandlers : MapHas(elementEventHandlers, n)
    /\ Len(listeners) = Len(EventTypes)

\* The path n, parent(n), ... up to but excluding the document.
RECURSIVE PathFrom(_, _)
PathFrom(d, n) == IF n = 0 THEN <<>> ELSE <<n>> \o PathFrom(d, d[n].parent)

\* The handlers registered for eventType on the nodes path[i..], node by
\* node, those of one node in registration order.
RECURSIVE HandlersAlong(_, _, _, _)
HandlersAlong(evh, path, eventType, i) ==
    IF i > Len(path) THEN <<>>
    ELSE [k \in 1..Len(HandlersOf(evh, path[i], eventType)) |->
             [handler |-> HandlersOf(evh, path[i], eventType)[k], el |-> path[i]]]
         \o HandlersAlong(evh, path, eventType, i + 1)

\* A step in which the host dispatches an event the layer observes.
ObservedStep == last'.op = "event" /\ last.op # "event" /\ last'.observed

\* C17: dispatch order.  When the layer observes an event of type T at node
\* n, the handlers it invokes are exactly those registered for (x, T) when
\* the dispatch began, for the nodes x on the path from n to the document:
\* the origin first, then its ancestors in order, the handlers of one node
\* in registration order, each once, and no handler of another type or of
\* a node off the path.
C17_DispatchOrder ==
    [][ObservedStep
       => last'.fired = HandlersAlong(eventHandlers, PathFrom(dom, last'.container),
                                      last'.eventType, 1)]_vars

\* A handler that does what hThrow does except throw, and the tables and
\* the record of a dispatch with one put for the other.
hCalm == Fn("hCalm")
Calm(handler) == IF HandlerThrows(handler) THEN hCalm ELSE handler
Restore(handler) == IF handler = hCalm THEN hThrow ELSE handler
CalmTables(evh) ==
    [n \in DOMAIN evh |->
        [t \in DOMAIN evh[n] |-> [i \in 1..Len(evh[n][t]) |-> Calm(evh[n][t][i])]]]
RestoreTables(evh) ==
    [n \in DOMAIN evh |->
        [t \in DOMAIN evh[n] |-> [i \in 1..Len(evh[n][t]) |-> Restore(evh[n][t][i])]]]
RestoreFired(fired) ==
    [i \in 1..Len(fired) |-> [handler |-> Restore(fired[i].handler), el |-> fired[i].el]]

\* The dispatch D, in which nothing throws, called the same handlers in the
\* same order and left the same tables.
SameOutcome(D, fired, evh) ==
    /\ ~D.exc
    /\ fired = RestoreFired(D.fired)
    /\ evh = RestoreTables(D.evh)

\* The handlers among those called that threw.
Throwers(fired) ==
    [i \in 1..Len(SelectSeq(fired, LAMBDA f : HandlerThrows(f.handler))) |->
        SelectSeq(fired, LAMBDA f : HandlerThrows(f.handler))[i].handler]

\* C18: exception isolation.  When a handler throws during a dispatch the
\* layer observes, the exception does not leave the dispatch, each throw is
\* logged once, and the dispatch calls the same handlers in the same order
\* and leaves the same registration tables as it would if the handler had
\* returned normally: the rest of its node's handlers and the ancestors'
\* handlers still fire.
C18_ExceptionIsolation ==
    [][(ObservedStep /\ Throwers(last'.fired) # <<>>)
       => /\ last'.ok
          /\ last'.logged = Throwers(last'.fired)
          /\ SameOutcome(callListeners(Dispatching(CalmTables(eventHandlers)),
                                       Len(DocumentListeners(listeners, last'.eventType)),
                                       dom, last'.eventType, last'.container),
                         last'.fired, eventHandlers')]_vars

\* A click whose second handler at the origin threw: it was logged, the
\* next handler of the same node and then a handler of an ancestor fired.
C18_Witness ==
    /\ last.op = "event"
    /\ last.ok
    /\ last.logged = <<hThrow>>
    /\ \E i \in 2..Len(last.fired) :
           /\ last.fired[i].handler = hThrow
           /\ last.fired[i].el = last.container
           /\ i + 2 <= Len(last.fired)
           /\ last.fired[i + 1].el = last.container
           /\ last.fired[i + 2].el # last.container

\* A step in which an unsubscribe function is called.
UnsubscribeStep == last'.op = "unsubscribe" /\ ops' = ops + 1

\* C19: unsubscribe.  After the function returned by on(element, type,
\* handler) is called, handler is not registered for (element, type) and an
\* event of that type at the element does not invoke it; the other handlers
\* of (element, type) are registered as before and in the same order, and
\* the handlers of every other type and of every other element are
\* unchanged.
C19_UnsubscribeReverses ==
    [][UnsubscribeStep
       => /\ HandlersOf(eventHandlers', last'.container, last'.eventType)
                 = SelectSeq(HandlersOf(eventHandlers, last'.container, last'.eventType),
                             LAMBDA h : h # last'.handler)
          /\ \A i \in 1..Len(FiredAt(dom', eventHandlers', last'.container)) :
                 last'.eventType = "click"
                 => FiredAt(dom', eventHandlers', last'.container)[i].handler # last'.handler
          /\ \A n \in 1..Len(dom) : \A t \in {"click", "keypress", "focus"} :
                 (n # last'.container \/ t # last'.eventType)
                 => HandlersOf(eventHandlers', n, t) = HandlersOf(eventHandlers, n, t)]_vars

\* An unsubscribe function has just removed a handler of an element and
\* type for which another handler remains registered, while another element
\* carries handlers too.
C19_Witness ==
    /\ last.op = "unsubscribe"
    /\ Len(HandlersOf(eventHandlers, last.container, last.eventType)) >= 1
    /\ ~Includes(HandlersOf(eventHandlers, last.container, last.eventType), last.handler)
    /\ \E t \in tokens : t.element = last.container /\ t.handler = last.handler
    /\ \E n \in NodesWithHandlers : n # last.container

\* The events DOCUMENTATION.md lists as supported.
DocumentedTypes ==
    {"click", "dblclick", "change", "input", "keydown", "keyup", "keypress", "submit",
     "blur", "focus", "mouseenter", "mouseleave", "mouseover"}

\* The attribute that supplies the handler of an event type.
OnAttribute(eventType) ==
    CASE eventType = "click" -> "onClick"
      [] eventType = "keypress" -> "onKeypress"
      [] eventType = "focus" -> "onFocus"
      [] OTHER -> ""

\* C20: documented events.  When an event of a type the documentation
\* lists as supported occurs at an attached element whose last rendered
\* description supplies a handler through the on<Event> attribute of that
\* type, the dispatch invokes that handler at the element.
C20_DocumentedEventsFire ==
    [][(/\ last'.op = "event"
        /\ last.op # "event"
        /\ last'.eventType \in DocumentedTypes
        /\ dom[last'.container].kind = "elem"
        /\ IsFunction(Prop(dom[last'.container].desc, OnAttribute(last'.eventType))))
       => \E i \in 1..Len(last'.fired) :
              /\ last'.fired[i].el = last'.container
              /\ last'.fired[i].handler
                     = Prop(dom[last'.container].desc, OnAttribute(last'.eventType))]_vars

(***************************************************************************)
(* The state store.                                                        *)
(***************************************************************************)
\* The positions of S's record at which a notification round begins, and
\* those at which round id calls callback.
BeginsIn(S) == {i \in 1..Len(S.notes) : S.notes[i].ev = "begin"}
CallsIn(S, id, callback) ==
    {i \in 1..Len(S.notes) :
        S.notes[i].ev = "call" /\ S.notes[i].id = id /\ S.notes[i].cb = callback}

\* callback was removed from the subscriber set after round b began and
\* before the round called it.
RemovedBeforeTurn(S, b, callback) ==
    \E j \in b + 1..Len(S.notes) :
        /\ S.notes[j].ev = "unsub"
        /\ S.notes[j].cb = callback
        /\ \A i \in CallsIn(S, S.notes[b].id, callback) : i > j

\* The round beginning at position b called every callback subscribed when
\* it began exactly once, except those removed before their turn, which it
\* did not call, and gave each call the round's states and action.
RoundComplete(S, b) ==
    /\ \A i \in 1..Len(S.notes[b].subs) :
           Cardinality(CallsIn(S, S.notes[b].id, S.notes[b].subs[i]))
               = IF RemovedBeforeTurn(S, b, S.notes[b].subs[i]) THEN 0 ELSE 1
    /\ \A i \in 1..Len(S.notes) :
           (S.notes[i].ev = "call" /\ S.notes[i].id = S.notes[b].id)
           => /\ i > b
              /\ Includes(S.notes[b].subs, S.notes[i].cb)
              /\ S.notes[i].cur = S.notes[b].cur
              /\ S.notes[i].prev = S.notes[b].prev
              /\ S.notes[i].action = S.notes[b].action

\* A step in which dispatch is called with a plain-object action that the
\* installed middleware passes on as it is.
DispatchStep ==
    /\ store'.op = "dispatch"
    /\ store'.ops = store.ops + 1
    /\ store'.arg.kind = "object"
    /\ applyMiddleware(store.middleware, 1, store'.arg) = store'.arg

\* C21: dispatch.  A dispatch of a plain-object action begins, before it
\* returns, a notification round with the action, the state the call found
\* as previous state and, when a reducer is registered for the action's
\* type, that reducer's result for the previous state as new state, which
\* is the store's state while the round runs; the round calls every
\* callback subscribed at that moment exactly once with these three
\* values, skipping only callbacks that were unsubscribed before their
\* turn; the same holds for every round a subscriber's own dispatch begins
\* meanwhile.
C21_DispatchNotifies ==
    [][DispatchStep
       => /\ BeginsIn(store') # {}
          /\ \A b \in BeginsIn(store') :
                 /\ RoundComplete(store', b)
                 /\ store'.notes[b].action.type \in ReducerNames
                    => store'.notes[b].cur
                           = applyReducer(store'.notes[b].action.type, store'.notes[b].prev,
                                          store'.notes[b].action)
                 /\ IF store'.notes[b].id = 1
                    THEN /\ store'.notes[b].prev = store.state
                         /\ store'.notes[b].action = store'.arg
                         /\ store'.notes[b].subs = store.subscribers
                    ELSE \E a \in BeginsIn(store') :
                             /\ store'.notes[a].id = store'.notes[b].id - 1
                             /\ store'.notes[b].prev = store'.notes[a].cur
          /\ \E b \in BeginsIn(store') :
                 /\ store'.notes[b].id = store'.calls
                 /\ store'.state = store'.notes[b].cur]_vars

\* A dispatch of inc has returned: the counter went from 0 to 1, and the
\* three subscribers, the first of which threw, were each called once with
\* the new state, the previous state and the action.
C21_Witness ==
    /\ store.op = "dispatch"
    /\ store.arg = Act("inc")
    /\ store.state.n = 1
    /\ store.subscribers = <<sThrow, s1, s2>>
    /\ \A c \in {sThrow, s1, s2} :
           \E i \in 1..Len(store.notes) :
               /\ store.notes[i].ev = "call"
               /\ store.notes[i].cb = c
               /\ store.notes[i].cur.n = 1
               /\ store.notes[i].prev.n = 0

\* A step in which the store notifies: a dispatch or a setState.
NotifyingStep == store'.op \in {"dispatch", "setState"} /\ store'.ops = store.ops + 1

\* A step in which a function returned by subscribe is called.
StoreUnsubscribeStep == store'.op = "unsubscribe" /\ store'.ops = store.ops + 1

\* C22: unsubscribe.  A call of the function subscribe(callback) returned
\* removes callback from the subscribers and leaves the others subscribed
\* in their order.  A dispatch or setState calls no callback that is not
\* subscribed when the call is made, and none after it was unsubscribed in
\* the course of the call; every callback that is subscribed and stays so
\* is called by it.
C22_UnsubscribeStops ==
    [][/\ StoreUnsubscribeStep
          => store'.subscribers = SelectSeq(store.subscribers, LAMBDA c : c # store'.arg)
       /\ NotifyingStep
          => /\ \A i \in 1..Len(store'.notes) :
                    store'.notes[i].ev = "call"
                    => /\ Includes(store.subscribers, store'.notes[i].cb)
                       /\ \A j \in 1..i - 1 :
                              ~(store'.notes[j].ev = "unsub"
                                /\ store'.notes[j].cb = store'.notes[i].cb)
             /\ \A i \in 1..Len(store.subscribers) :
                    Includes(store'.subscribers, store.subscribers[i])
                    => CallsIn(store', 1, store.subscribers[i]) # {}]_vars

\* s1 and s2 subscribed, s1's unsubscribe function was called, and the
\* dispatch that followed called s2 and not s1.
C22_Witness ==
    /\ store.op = "dispatch"
    /\ s1 \in store.issued
    /\ store.subscribers = <<s2>>
    /\ CallsIn(store, 1, s2) # {}
    /\ CallsIn(store, 1, s1) = {}

(***************************************************************************)
(* The router.                                                             *)
(***************************************************************************)
\* The positions of the router's record that belong to route change id.
NotesOf(R, id) == {i \in 1..Len(R.log) : R.log[i].id = id}

\* Route change id called a global before hook or a beforeEnter guard that
\* returned false.
Refused(R, id) ==
    \E i \in NotesOf(R, id) : R.log[i].ev \in {"before", "enter"} /\ Outcome(R.log[i].fn) = "false"

\* A step in which a suspended route change learns that the hook or guard
\* it awaited returned false.
RefusalStep ==
    /\ router.nav.pc \in {"before", "enter"}
    /\ router.nav.result = "false"
    /\ router'.ops = router.ops
    /\ router' # router

RootPatch ==
    /\ RenderStep
    /\ last'.ok
    /\ ~\E i \in 1..Len(last'.calls) : HookRenders(last'.calls[i].hook)
    /\ MapHas(containerTrees, last'.container)
    /\ containerTrees[last'.container].type = "elem"
    /\ last'.vnode.type = "elem"
    /\ ~hasNodeChanged(last'.vnode, containerTrees[last'.container])
    /\ dom[last'.container].kids # <<>>
    /\ Matches(dom, RootOf(dom, last'.container), containerTrees[last'.container])

\* The live children of the root of the step's mount point, before the step.
OldKids == dom[RootOf(dom, last'.container)].kids

\* C24: positional shrink.  When a parent with n unkeyed children is
\* re-rendered with m < n unkeyed children, the parent has exactly m live
\* children afterwards, and each of the n - m surplus live nodes has been
\* detached and cleaned up exactly once.
C24_PositionalShrink ==
    [][(/\ RootPatch
        /\ ~hasKeys(last'.vnode.children, containerTrees[last'.container].children)
        /\ Len(last'.vnode.children) < Len(containerTrees[last'.container].children))
       => /\ Len(dom'[RootOf(dom, last'.container)].kids) = Len(last'.vnode.children)
          /\ \A i \in Len(last'.vnode.children) + 1..Len(OldKids) :
                 /\ dom'[OldKids[i]].parent = 0
                 /\ Count(last'.cleaned, OldKids[i]) = 1]_vars

\* The live children of node n are one node per description of children,
\* in order, each of the kind, tag and content described, and no other.
KidsMatch(d, n, children) ==
    /\ Len(d[n].kids) = Len(children)
    /\ \A i \in 1..Len(children) : Matches(d, d[n].kids[i], children[i])

\* C25: keyed reconciliation result.  When a parent is re-rendered and at
\* least one old or new child carries a key, the parent's live children
\* afterwards are one node per new child description, in the order of the
\* new children, and no other live child remains; also when the group
\* contains unkeyed elements or text leaves.
C25_KeyedChildrenAreProcessed ==
    [][(/\ RootPatch
        /\ hasKeys(last'.vnode.children, containerTrees[last'.container].children))
       => KidsMatch(dom', RootOf(dom, last'.container), last'.vnode.children)]_vars

\* The keys of a sequence of child descriptions that are neither null nor
\* undefined.
KeysCarried(children) ==
    {children[i].key : i \in {j \in 1..Len(children) : children[j].key \notin {Null, Undefined}}}

\* C26: choice of reconciliation.  Every sibling group a render or mount
\* reconciles is given keyed reconciliation if at least one old or new child
\* description carries a non-null key and positional reconciliation
\* otherwise; a keyed old group with no new children is given keyed
\* reconciliation.
C26_KeyedIffAnyKey ==
    \A i \in 1..Len(last.paths) :
        last.paths[i].keyed
            <=> (KeysCarried(last.paths[i].new) \cup KeysCarried(last.paths[i].old)) # {}

\* A keyed list of three items has been re-rendered with no children: the
\* group was given keyed reconciliation, which removed the three items.
C26_Witness ==
    /\ last.op = "render"
    /\ last.ok
    /\ \E i \in 1..Len(last.paths) :
           /\ last.paths[i].keyed
           /\ last.paths[i].new = <<>>
           /\ Len(last.paths[i].old) = 3
    /\ Len(last.cleaned) = 3
    /\ dom[RootOf(dom, last.container)].kids = <<>>

\* No child description of vnode supplies data-id.
NoDataId(vnode) ==
    \A i \in 1..Len(vnode.children) : ~MapHas(vnode.children[i].props, "data-id")

\* C27: a child matched by key follows the single-node patch rules.  When a
\* list whose children all carry distinct keys, live as described, is
\* re-rendered with such a list, every new child has afterwards, at its
\* position, a live node of the tag of its description: a child whose key
\* was in the old list with another tag was replaced by a new node.
C27_KeyedMatchIsPatched ==
    [][(/\ RootPatch
        /\ IsKeyedList(containerTrees[last'.container])
        /\ IsKeyedList(last'.vnode)
        /\ NoDataId(containerTrees[last'.container])
        /\ NoDataId(last'.vnode))
       => KidsMatch(dom', RootOf(dom, last'.container), last'.vnode.children)]_vars

\* The attributes of the description live before the step, and the ones of
\* the description the step renders.
OldProps == containerTrees[last'.container].props
NewProps == last'.vnode.props

\* Attribute key, set with value by the old description, has no effect left
\* on live node n of host tree d with handler table evh.
NoEffectLeft(d, evh, n, key, value) ==
    CASE key = "className" -> d[n].className = ""
      [] key = "style" -> d[n].style = EmptyMap
      [] StartsWithOn(key) /\ IsFunction(value) ->
            \A i \in 1..Len(HandlersOf(evh, n, EventTypeOf(key))) :
                HandlersOf(evh, n, EventTypeOf(key))[i] # value
      [] key \in LiveRouted -> ~(MapHas(d[n].live, key) /\ d[n].live[key] = value)
      [] key = "htmlFor" -> ~MapHas(d[n].attrs, "for")
      [] key \in {"key", "onMount", "onUnmount"} -> TRUE
      [] OTHER -> ~MapHas(d[n].attrs, key)

\* C28: removal of an attribute's effect.  After a render that patches the
\* root element in place, every attribute the old description had and the new
\* one lacks has no effect left on the live element: the class is empty, the
\* style has no declaration, the handler is no longer registered, a
\* property-routed attribute no longer holds the old value, and the DOM
\* attribute that was set for it (for, data-id, title, autofocus) is absent.
C28_RemovedAttributeHasNoEffect ==
    [][RootPatch
       => \A key \in (DOMAIN OldProps) \ (DOMAIN NewProps) :
              NoEffectLeft(dom', eventHandlers', RootOf(dom, last'.container),
                           key, OldProps[key])]_vars

\* C29: a style mapping overwrites.  After a render that patches the root
\* element in place, where the old and the new description both carry a style
\* object and the two objects differ, the live element's style holds exactly
\* the declarations of the new object.
C29_StyleIsOverwritten ==
    [][(/\ RootPatch
        /\ MapHas(OldProps, "style") /\ OldProps["style"].ty = "object"
        /\ MapHas(NewProps, "style") /\ NewProps["style"].ty = "object"
        /\ OldProps["style"] # NewProps["style"])
       => dom'[RootOf(dom, last'.container)].style = StyleEntries(NewProps["style"])]_vars

\* The element document.createElement(tag) gives, after setProps(element, props).
Materialized(tag, props) ==
    setProps(createNode(World, ElementNode(tag)), Len(dom) + 1, props).dom[Len(dom) + 1]

\* Live nodes a and b carry the same class, style, properties and attributes.
SameAppearance(a, b) ==
    /\ a.className = b.className
    /\ a.style = b.style
    /\ a.live = b.live
    /\ a.attrs = b.attrs

\* The live node has been touched by no attribute yet.
Pristine(node) == SameAppearance(node, ElementNode(node.tag))

\* C30: the decision rule is the same in materialization and in update.
\* When a pristine root element whose description had no attribute is patched
\* in place with a description that has some, it carries afterwards the same
\* class, style, properties and attributes as a fresh element of that tag to
\* which setProps applied the same attributes.
C30_SameRuleInUpdate ==
    [][(/\ RootPatch
        /\ OldProps = NoProps
        /\ Pristine(dom[RootOf(dom, last'.container)]))
       => SameAppearance(dom'[RootOf(dom, last'.container)],
                         Materialized(last'.vnode.tag, NewProps))]_vars

\* Every child of the description is an element with a key.
AllKeyed(vnode) ==
    /\ vnode.type = "elem"
    /\ \A i \in 1..Len(vnode.children) :
           vnode.children[i].type = "elem" /\ HasKey(vnode.children[i])

\* Two children of the description carry the same key.
HasDuplicateKeys(vnode) ==
    /\ AllKeyed(vnode)
    /\ \E i, j \in 1..Len(vnode.children) :
           i # j /\ vnode.children[i].key = vnode.children[j].key

\* C31: duplicate keys lose no node.  When a list live as described is
\* re-rendered in place and the old or the new sibling group contains a
\* duplicate key (all children being keyed elements), afterwards every new
\* child description has its own live node, in order and as described, and
\* no other live child remains under the parent.
C31_DuplicateKeysLoseNoNode ==
    [][(/\ RootPatch
        /\ AllKeyed(containerTrees[last'.container])
        /\ AllKeyed(last'.vnode)
        /\ (HasDuplicateKeys(containerTrees[last'.container]) \/ HasDuplicateKeys(last'.vnode)))
       => KidsMatch(dom', RootOf(dom, last'.container), last'.vnode.children)]_vars

\* C32: descriptions are immutable.  No render or mount call, in
\* materialization or in patch, has assigned to a field of the description
\* passed to it or of one of its child descriptions.
C32_DescriptionsAreNeverWritten ==
    last.op \in {"render", "mount"} => last.writes = <<>>

\* Node a is a proper ancestor of node n in host tree d.
RECURSIVE IsAncestor(_, _, _)
IsAncestor(d, a, n) ==
    IF d[n].parent = 0 THEN FALSE
    ELSE d[n].parent = a \/ IsAncestor(d, a, d[n].parent)

\* The child indexes that lead from the top of host tree d to node n.
RECURSIVE Position(_, _)
Position(d, n) ==
    IF d[n].parent = 0 THEN <<n>>
    ELSE Append(Position(d, d[n].parent), IndexOf(d[d[n].parent].kids, n))

\* Nodes x and y are children of one parent, x before y.
SiblingBefore(d, x, y) ==
    /\ d[x].parent # 0
    /\ d[x].parent = d[y].parent
    /\ IndexOf(d[d[x].parent].kids, x) < IndexOf(d[d[y].parent].kids, y)

\* The element has an unmount hook registered.
HasUnmountHook(hooks, element) ==
    MapHas(hooks, element) /\ IsFunction(hooks[element].onUnmount)

\* In log L, between the entry of cleanup for element a at position i and
\* position j, the registrations of a were removed, after its unmount hook
\* (if it had one) was invoked.
DoneBetween(L, hooks, a, i, j) ==
    \E f \in (i + 1)..(j - 1) :
        /\ L[f] = [ev |-> "forget", el |-> a]
        /\ HasUnmountHook(hooks, a)
           => \E h \in (i + 1)..(f - 1) : L[h] = [ev |-> "hook", el |-> a]

\* Position i of log L is the first entry of cleanup for its element, a node
\* that was in the host tree when the call began.
FirstEntry(L, i) ==
    /\ L[i].ev = "enter"
    /\ L[i].el \in 1..Len(dom)
    /\ \A k \in 1..(i - 1) : L[k] # L[i]

\* Cleanup was entered for element a somewhere before position i of log L.
EnteredBefore(L, a, i) == \E k \in 1..(i - 1) : L[k] = [ev |-> "enter", el |-> a]

\* C33: order of cleanup.  In every render or mount call, when cleanup
\* reaches an element, each of its ancestors that cleanup entered earlier in
\* the call has by then had its own unmount hook invoked and then its handler
\* registrations removed; and of two sibling subtrees under an element being
\* cleaned up, cleanup reaches the root and every descendant of the earlier
\* sibling before it reaches the later sibling.
C33_CleanupOrder ==
    [][\A j \in 1..Len(last'.steps) :
           FirstEntry(last'.steps, j)
           => \A i \in 1..Len(last'.steps) :
                  FirstEntry(last'.steps, i)
                  => /\ (i < j /\ IsAncestor(dom, last'.steps[i].el, last'.steps[j].el))
                        => DoneBetween(last'.steps, lifecycleHooks, last'.steps[i].el, i, j)
                     /\ (/\ EnteredBefore(last'.steps, dom[last'.steps[j].el].parent, j)
                         /\ \E x \in 1..Len(dom) :
                                /\ SiblingBefore(dom, x, last'.steps[j].el)
                                /\ (x = last'.steps[i].el \/ IsAncestor(dom, x, last'.steps[i].el)))
                        => i < j]_vars

\* A tree of four hooked elements has been cleaned up by one render: the
\* parent first (hook, then registrations), then its first child's subtree,
\* then the second child.
C33_Witness ==
    /\ last.op = "render"
    /\ last.ok
    /\ Len(last.cleaned) = 5
    /\ Len(last.calls) = 4
    /\ last.calls[1].hook = u1 /\ last.calls[2].hook = u2
    /\ last.calls[3].hook = u3 /\ last.calls[4].hook = u4

\* The nodes of the subtree of mount point b in host tree d, b included.
SubtreeOf(d, b) == {b} \cup {n \in 1..Len(d) : IsAncestor(d, b, n)}

\* The entry of table t for key k, Null when there is none.
EntryOf(t, k) == IF MapHas(t, k) THEN <<t[k]>> ELSE <<>>

\* The step left mount point b as it was: its registry entry, the nodes of
\* its live subtree, and the handler and hook registrations of those nodes.
MountUntouched(b) ==
    /\ EntryOf(containerTrees', b) = EntryOf(containerTrees, b)
    /\ SubtreeOf(dom', b) = SubtreeOf(dom, b)
    /\ \A n \in SubtreeOf(dom, b) :
           /\ dom'[n] = dom[n]
           /\ EntryOf(eventHandlers', n) = EntryOf(eventHandlers, n)
           /\ EntryOf(elementEventHandlers', n) = EntryOf(elementEventHandlers, n)
           /\ EntryOf(lifecycleHooks', n) = EntryOf(lifecycleHooks, n)

\* C34: mount points are independent.  A render call on one mount point,
\* whether it returns or throws, leaves the registry entry, the live subtree
\* and the handler and hook registrations of every other mount point as they
\* were, in every interleaving of render and mount calls on the two points.
C34_MountPointsAreIndependent ==
    [][(ops' = ops + 1 /\ last'.op = "render")
       => \A b \in Mounts \ {last'.container} : MountUntouched(b)]_vars

\* Both mount points hold a tree with a click handler, and the last call
\* re-rendered the second one in place.
C34_Witness ==
    /\ last.op = "render"
    /\ last.container = M2
    /\ Len(last.trace) > 0 /\ last.trace[1].ev = "patch"
    /\ MapHas(containerTrees, M1) /\ MapHas(containerTrees, M2)
    /\ dom[M1].kids # <<>> /\ dom[M2].kids # <<>>
    /\ HandlersOf(eventHandlers, RootOf(dom, M1), "click") # <<>>
    /\ HandlersOf(eventHandlers, RootOf(dom, M2), "click") # <<>>

\* The jobs that call onMount with element n, queued or already run.
JobsFor(m, n) ==
    {i \in 1..Len(m.pending) : m.pending[i].el = n} \cup
    {Len(m.pending) + i : i \in {j \in 1..Len(m.ran) : m.ran[j].el = n}}

\* Node n of host tree d was materialized from a description whose onMount
\* is a function.
MaterializedWithOnMount(d, n) ==
    /\ d[n].kind = "elem"
    /\ MapHas(d[n].desc, "onMount")
    /\ IsFunction(d[n].desc["onMount"])

\* A render or mount call invokes no onMount itself; it queues exactly one
\* job for each element it created from a description with an onMount
\* function, and none for any node that existed before.
CallQueuesOnMount ==
    (ops' = ops + 1)
    => /\ microtasks'.ran = microtasks.ran
       /\ \A n \in 1..Len(dom') :
              Cardinality(JobsFor(microtasks', n)) =
                  IF n > Len(dom) /\ MaterializedWithOnMount(dom', n)
                  THEN 1
                  ELSE IF n > Len(dom) THEN 0
                  ELSE Cardinality(JobsFor(microtasks, n))
       /\ \A i \in 1..Len(microtasks'.pending) :
              microtasks'.pending[i].el > Len(dom)
              => microtasks'.pending[i].fn = dom'[microtasks'.pending[i].el].desc["onMount"]

\* Outside a call, the only invocation is that of the oldest queued job.
HostRunsOnMount ==
    (ops' = ops)
    => /\ microtasks.pending # <<>>
       /\ microtasks'.pending = Tail(microtasks.pending)
       /\ microtasks'.ran = Append(microtasks.ran, Head(microtasks.pending))

\* C35: onMount runs once, later.  No render or mount call invokes an
\* onMount callback while it runs; each element created from a description
\* with an onMount function gets exactly one invocation, with that element,
\* made by the host after the call that created it has returned; an element
\* that a later render reuses gets no further invocation; and every queued
\* invocation is eventually made.
C35_OnMountOnceAfterRender ==
    /\ [][CallQueuesOnMount /\ HostRunsOnMount]_vars
    /\ []<>(microtasks.pending = <<>>)

\* An element created with onMount m1 has had its one invocation, and a later
\* render has since reused it for a description with another onMount function.
C35_Witness ==
    /\ last.op = "render"
    /\ last.ok
    /\ last.vnode.ref = 901
    /\ dom[M1].kids # <<>>
    /\ microtasks.ran = <<[fn |-> m1, el |-> RootOf(dom, M1)]>>
    /\ microtasks.pending = <<>>

\* The handler is registered for (el, eventType) in table evh.
StillRegistered(evh, el, eventType, handler) == Includes(HandlersOf(evh, el, eventType), handler)

\* C36: unregistering during dispatch skips nobody.  When the layer observes
\* an event, every handler that was registered on the path for the event's
\* type when the dispatch began, and is still registered when it ends, has
\* been called at its element in that dispatch, also when a handler
\* unregistered itself while the dispatch ran.
C36_UnregisteringSkipsNobody ==
    [][ObservedStep
       => \A i \in 1..Len(HandlersAlong(eventHandlers, PathFrom(dom, last'.container),
                                        last'.eventType, 1)) :
              StillRegistered(eventHandlers',
                         HandlersAlong(eventHandlers, PathFrom(dom, last'.container),
                                       last'.eventType, 1)[i].el,
                         last'.eventType,
                         HandlersAlong(eventHandlers, PathFrom(dom, last'.container),
                                       last'.eventType, 1)[i].handler)
              => Includes(last'.fired,
                          HandlersAlong(eventHandlers, PathFrom(dom, last'.container),
                                        last'.eventType, 1)[i])]_vars

\* C37: the navigation flag is always reset.  Whenever isNavigating is true
\* it is false again later, whichever way the handleRouteChange call that
\* set it ends: no route, a cancelling hook, a handler that returns, and an
\* exception from a hook, from the handler or from matching and decoding
\* the path.
C37_NavigationFlagIsReset ==
    router.isNavigating ~> ~router.isNavigating

\* The events of the router's record that are calls of hooks, guards and
\* route handlers.
CallEvents == {"before", "enter", "handler", "after"}

\* A step in which handleRouteChange is called while a route change that
\* has started is suspended at an await.
CallWhileNavigating ==
    /\ router'.ops = router.ops + 1
    /\ router'.navs = router.navs + 1
    /\ router.isNavigating

\* C38: one route change at a time.  A handleRouteChange called while
\* isNavigating is true returns at once: it calls no hook, guard or handler,
\* changes neither currentRoute nor currentPath nor the route change in
\* progress; and in the whole record the calls made by one route change
\* never fall between the calls made by another.
C38_OneRouteChangeAtATime ==
    [][/\ CallWhileNavigating
          => /\ router'.log = Append(router.log,
                                     [ev |-> "dropped", id |-> router'.navs, fn |-> Null,
                                      cur |-> router.currentPath])
             /\ router'.nav = router.nav
             /\ router'.isNavigating
             /\ router'.currentRoute = router.currentRoute
             /\ router'.currentPath = router.currentPath
       /\ \A i, j, k \in 1..Len(router'.log) :
              (/\ i < j /\ j < k
               /\ router'.log[i].ev \in CallEvents
               /\ router'.log[j].ev \in CallEvents
               /\ router'.log[k].ev \in CallEvents
               /\ router'.log[i].id = router'.log[k].id)
              => router'.log[j].id = router'.log[i].id]_vars

\* A route change was requested while another was suspended at the await of
\* a hook, and was dropped; the suspended one is still in progress.
C38_Witness ==
    /\ router.log # <<>>
    /\ router.log[Len(router.log)].ev = "dropped"
    /\ router.nav.pc = "before"
    /\ router.isNavigating

\* The positions of S's record at which callback is called, in any round.
AllCallsOf(S, callback) ==
    {i \in 1..Len(S.notes) : S.notes[i].ev = "call" /\ S.notes[i].cb = callback}

\* C39: nested dispatch.  When a subscriber dispatched a further action
\* while the store was notifying, so that the call began more than one
\* notification round, the last notification the call gave to each callback
\* that is still subscribed carries the state the store has when the call
\* returns.
C39_LastNotificationIsFinalState ==
    [][(NotifyingStep /\ Cardinality(BeginsIn(store')) > 1)
       => \A i \in 1..Len(store'.notes) :
              (/\ store'.notes[i].ev = "call"
               /\ Includes(store'.subscribers, store'.notes[i].cb)
               /\ \A j \in AllCallsOf(store', store'.notes[i].cb) : j <= i)
              => store'.notes[i].cur = store'.state]_vars


\* The host nodes below mount point c: the content rendered into it.
ContentOf(d, c) == {n \in 1..Len(d) : IsAncestor(d, c, n)}

\* No handler, tracked handler or lifecycle hook is registered for node n.
Unregistered(n) ==
    /\ ~MapHas(eventHandlers', n)
    /\ ~MapHas(elementEventHandlers', n)
    /\ ~MapHas(lifecycleHooks', n)

\* The mount call diffs against a registry entry of its mount point.
MountDiffs == \E i \in 1..Len(last'.trace) :
                  last'.trace[i].ev = "patch" /\ last'.trace[i].c = last'.container

\* C40: framework.mount(app, container) never diffs app against a
\* description rendered into the container before: its render takes the
\* first-render path, and when it returns the registry maps the container to
\* app and no handler or lifecycle hook of the previous content is registered.
C40_MountStartsAfresh ==
    [][last'.op = "mount" /\ ops' = ops + 1
       => /\ ~MountDiffs
          /\ last'.ok => /\ MapHas(containerTrees', last'.container)
                         /\ containerTrees'[last'.container] = last'.vnode
                         /\ \A n \in ContentOf(dom, last'.container) : Unregistered(n)]_vars

=============================================================================
